---------------------------- MODULE Spec2Model ----------------------------
(***************************************************************************)
(* Stellar Analysis Logger: the queued HTTP dispatcher (sal/http_client.py, *)
(* HttpClient) as a state machine.  The control thread calls start() and    *)
(* stop(), producer threads call send_json_post_request(), and every worker *)
(* thread that start() spawned runs _worker().  start() and stop() are      *)
(* calls of the one control thread, so neither begins while stop() waits in *)
(* join(); the worker threads and the producers run at any time.  A thread  *)
(* step is one access to the shared queue, event or log.                    *)
(* GetSpec adds the synchronous GET of the client, and LookupSpec is the    *)
(* discovery lookup (sal/system_lookup.py, SystemLookup) with its cache,    *)
(* driven by the thread that delivers the journal entries, in the copy of   *)
(* sal or of core, with or without an HttpClient.  ConcurrentLookupSpec is  *)
(* the lookup called from two threads, and ValidatorSpec the calls of       *)
(* _is_url_valid.  CallbackSpec is the dispatcher with callbacks that may   *)
(* raise, and HandlerSpec the DataHandler (sal/data_handler.py) processing  *)
(* journal entries: its lookups and the requests it hands to the client.    *)
(***************************************************************************)
EXTENDS Integers, Sequences, FiniteSets, TLC

\* ------------------------------------------------------------------ bounds
MaxRequests == 2      \* calls of send_json_post_request in one run
MaxLifecycleCalls == 3 \* calls of start() and stop() in one run
MaxFairLifecycleCalls == 2 \* the same, in the runs of FairSpec
MaxGets == 2          \* calls of send_get_request_sync in one run
MaxGetLifecycleCalls == 2 \* calls of start() and stop() in the runs of GetSpec
MaxLookups == 2       \* calls of check_system_discovery_status in one run
MaxHostLabels == 2    \* labels of a hostname handed to _is_url_valid
MaxEntries == 2       \* journal entries handed to process_journal_entry

\* ------------------------------------------------------- URL validation
\* A Python value handed in as url: a str (its characters) or a non-str.
StrUrl(chars) == [is_str |-> TRUE, chars |-> chars]
NoneUrl == [is_str |-> FALSE, chars |-> <<>>]

LowerLetters ==
    <<"a","b","c","d","e","f","g","h","i","j","k","l","m",
      "n","o","p","q","r","s","t","u","v","w","x","y","z">>
UpperLetters ==
    <<"A","B","C","D","E","F","G","H","I","J","K","L","M",
      "N","O","P","Q","R","S","T","U","V","W","X","Y","Z">>
\* [A-Z] under re.IGNORECASE
Alpha == {LowerLetters[i] : i \in 1..26} \cup {UpperLetters[i] : i \in 1..26}
\* \d
Digit == {"0","1","2","3","4","5","6","7","8","9"}
\* [A-Z0-9] and [A-Z0-9-]
AlNum == Alpha \cup Digit
AlNumDash == AlNum \cup {"-"}
\* the characters \S rejects
Whitespace == {" ", "\t", "\n", "\r", "\f"}

\* A literal character of the pattern under re.IGNORECASE.
IgnoreCase(c) ==
    {c} \cup {UpperLetters[i] : i \in {j \in 1..26 : LowerLetters[j] = c}}

\* The matcher works on sets of positions: P holds every position the match
\* of the pattern so far can have reached in s (1 = before the first
\* character), so alternation and backtracking are set union.
MatchClass(s, P, C) == {p + 1 : p \in {q \in P : q <= Len(s) /\ s[q] \in C}}
MatchNonSpace(s, P) ==
    {p + 1 : p \in {q \in P : q <= Len(s) /\ s[q] \notin Whitespace}}

RECURSIVE MatchLiteral(_, _, _)
MatchLiteral(s, P, lit) ==
    IF lit = <<>> THEN P
    ELSE MatchLiteral(s, MatchClass(s, P, IgnoreCase(Head(lit))), Tail(lit))

\* C{lo,hi}
RECURSIVE MatchRepeat(_, _, _, _, _)
MatchRepeat(s, P, C, lo, hi) ==
    IF P = {} THEN {}
    ELSE (IF lo <= 0 THEN P ELSE {})
         \cup (IF hi = 0 THEN {}
               ELSE MatchRepeat(s, MatchClass(s, P, C), C, lo - 1, hi - 1))

\* \S+
RECURSIVE MatchNonSpacePlus(_, _)
MatchNonSpacePlus(s, P) ==
    LET Q == MatchNonSpace(s, P)
    IN  IF Q = {} THEN {} ELSE Q \cup MatchNonSpacePlus(s, Q)

\* (?:http|ftp)s?://
MatchScheme(s, P) ==
    LET name == MatchLiteral(s, P, <<"h","t","t","p">>)
                \cup MatchLiteral(s, P, <<"f","t","p">>)
        opt_s == name \cup MatchLiteral(s, name, <<"s">>)
    IN  MatchLiteral(s, opt_s, <<":","/","/">>)

\* [A-Z0-9](?:[A-Z0-9-]{0,61}[A-Z0-9])?\.
MatchLabel(s, P) ==
    LET first == MatchClass(s, P, AlNum)
        rest == MatchClass(s, MatchRepeat(s, first, AlNumDash, 0, 61), AlNum)
    IN  MatchClass(s, first \cup rest, {"."})

\* (?:label)+
RECURSIVE MatchLabels(_, _)
MatchLabels(s, P) ==
    LET Q == MatchLabel(s, P)
    IN  IF Q = {} THEN {} ELSE Q \cup MatchLabels(s, Q)

\* (?:[A-Z]{2,6}\.?|[A-Z0-9-]{2,}\.?)
MatchTld(s, P) ==
    LET letters == MatchRepeat(s, P, Alpha, 2, 6)
        any == MatchRepeat(s, P, AlNumDash, 2, Len(s))
    IN  letters \cup MatchClass(s, letters, {"."})
        \cup any \cup MatchClass(s, any, {"."})

\* \d{1,3}\.\d{1,3}\.\d{1,3}\.\d{1,3}
MatchIPv4(s, P) ==
    LET octet(Q) == MatchRepeat(s, Q, Digit, 1, 3)
        dot(Q) == MatchClass(s, Q, {"."})
    IN  octet(dot(octet(dot(octet(dot(octet(P)))))))

\* domain | localhost | IPv4
MatchHost(s, P) ==
    MatchTld(s, MatchLabels(s, P))
    \cup MatchLiteral(s, P, <<"l","o","c","a","l","h","o","s","t">>)
    \cup MatchIPv4(s, P)

\* The pattern with the port made mandatory: (?::\d+)
MatchPort_required(s, P) ==
    MatchRepeat(s, MatchClass(s, P, {":"}), Digit, 1, Len(s))

\* (?::\d+)?
MatchPort(s, P) ==
    P \cup MatchRepeat(s, MatchClass(s, P, {":"}), Digit, 1, Len(s))

\* (?:/?|[/?]\S+)
MatchTail(s, P) ==
    P \cup MatchClass(s, P, {"/"})
    \cup MatchNonSpacePlus(s, MatchClass(s, P, {"/", "?"}))

\* $ : the end of the string, or just before a newline that ends it
AtEnd(s, P) ==
    (Len(s) + 1) \in P \/ (Len(s) >= 1 /\ s[Len(s)] = "\n" /\ Len(s) \in P)

\* self._url_validator.match(url_string) is not None
url_validator_match(s) ==
    AtEnd(s, MatchTail(s, MatchPort(s, MatchHost(s, MatchScheme(s, {1})))))

is_url_valid(url) ==
    IF ~url.is_str \/ url.chars = <<>> THEN FALSE
    ELSE url_validator_match(url.chars)


\* ----------------------------------------------- the calls of _is_url_valid
\* The labels of the hostnames handed in, and the hostnames of two labels to
\* MaxHostLabels labels made of them.
HostLabels == {<<"a">>, <<"i","o">>, <<"x","-","1">>, <<"c","o","m">>}
RECURSIVE Dotted(_)
Dotted(labels) ==
    IF Len(labels) = 1 THEN labels[1]
    ELSE labels[1] \o <<".">> \o Dotted(Tail(labels))
DottedHostnames ==
    {Dotted(labels) : labels \in UNION {[1..n -> HostLabels] : n \in 2..MaxHostLabels}}
Localhost == <<"l","o","c","a","l","h","o","s","t">>
IPv4Hosts == {<<"1","0",".","0",".","0",".","1">>,
              <<"1","9","2",".","1","6","8",".","1",".","2","5","4">>}
UrlHosts == DottedHostnames \cup {Localhost} \cup IPv4Hosts
UrlPorts == {<<>>, <<":","8","0">>}
UrlPaths == {<<>>, <<"/">>, <<"/","v","1","/","x">>}
HttpSchemes == {<<"h","t","t","p">>, <<"h","t","t","p","s">>}
OtherSchemes == {<<"f","i","l","e">>, <<"w","s">>}

\* scheme://host[:port][/path]
UrlOf(scheme, host, port, path) ==
    StrUrl(scheme \o <<":","/","/">> \o host \o port \o path)
\* The same without "scheme://".
NoSchemeOf(host, port, path) == StrUrl(host \o port \o path)

\* The values handed to _is_url_valid: the URLs of the two http schemes and
\* of two schemes the pattern does not name, the same strings without a
\* scheme, the empty string and a value that is no str.
HttpUrls ==
    {UrlOf(scheme, host, port, path) :
        scheme \in HttpSchemes, host \in UrlHosts, port \in UrlPorts, path \in UrlPaths}
OtherSchemeUrls ==
    {UrlOf(scheme, host, port, path) :
        scheme \in OtherSchemes, host \in {Localhost} \cup IPv4Hosts,
        port \in UrlPorts, path \in UrlPaths}
NoSchemeUrls ==
    {NoSchemeOf(host, port, path) :
        host \in {Localhost} \cup IPv4Hosts, port \in UrlPorts, path \in UrlPaths}
UrlInputs ==
    HttpUrls \cup OtherSchemeUrls \cup NoSchemeUrls \cup {StrUrl(<<>>), NoneUrl}

\* What _is_url_valid returns for each of these values.
UrlVerdict == [url \in UrlInputs |-> is_url_valid(url)]

\* No call of _is_url_valid made yet.
NoValidation == [called |-> FALSE, url |-> NoneUrl, result |-> FALSE]

\* ---------------------------------------------------------- the dispatcher
VARIABLES
    request_queue,    \* self._request_queue: the items not yet taken, oldest first
    shutdown_event,   \* self._shutdown_event.is_set()
    worker_thread,    \* self._worker_thread: 0 for None, else an index of threads
    threads,          \* every thread start() has spawned, in spawn order
    stop_pc,          \* where the control thread stands inside stop()
    calls,            \* log: the send_json_post_request calls, in call order
    posts,            \* log: the requests.post calls of the workers, in issue order,
                      \* each pending, handled (lines 184-234) or unhandled (242)
    callbacks,        \* log: the callback invocations, in invocation order
    start_calls,      \* log: how often start() has been called
    stop_calls,       \* log: how often stop() has been called
    gets,             \* log: the send_get_request_sync calls, in call order
    package,          \* the copy of the plugin that runs: "sal" or "core"
    settings,         \* SystemLookup.settings: {} for None, else {the Settings}
    http_client,      \* SystemLookup.http_client is not None
    discovery_cache,  \* SystemLookup._discovery_cache: cache key -> tuple
    lookup,           \* the check_system_discovery_status call in progress
                      \* on the thread that is running
    other_lookup,     \* the call in progress on a second thread, which waits
    validation,       \* the last _is_url_valid call: its argument and result
    lookups,          \* log: the calls that returned, in return order
    data_handler,     \* the DataHandler: which of settings, http_client and
                      \* system_lookup it holds, and its last-value cache
    preferences,      \* Settings.plugin_enabled and Settings.api_url
    entries           \* log: the process_journal_entry calls, in call order

client_vars == <<request_queue, shutdown_event, worker_thread, threads, stop_pc,
                 calls, posts, callbacks, start_calls, stop_calls>>
get_vars == <<gets>>
lookup_vars == <<package, settings, http_client, discovery_cache, lookup,
                 other_lookup, lookups>>
validator_vars == <<validation>>
handler_vars == <<data_handler, preferences, entries>>
vars == <<client_vars, get_vars, lookup_vars, validator_vars, handler_vars>>

\* The URLs the producers hand to send_json_post_request.
ValidUrl == StrUrl(<<"h","t","t","p",":","/","/","a",".","i","o","/","x">>)
NoSchemeUrl == StrUrl(<<"a",".","i","o","/","x">>)
PostUrls == {ValidUrl, NoSchemeUrl}

\* No check_system_discovery_status call is in progress.
NoLookup ==
    [pc |-> "idle", system_name |-> "", system_address |-> 0,
     original_was_discovered |-> {}, discovery_sources |-> <<>>,
     queried |-> <<>>, failed |-> <<>>]

\* The status codes the endpoint answers with.
StatusCodes == {200, 304, 404}

\* What requests.post(...) does: it returns a response, or raises Timeout,
\* another RequestException, or an exception of no requests class.
PostOutcomes ==
    {[kind |-> "response", status_code |-> s] : s \in StatusCodes}
    \cup {[kind |-> k, status_code |-> 0] :
            k \in {"Timeout", "RequestException", "Exception"}}

\* SalRequest(url, payload, headers, callback); id stands for the payload.
SalRequest(id, url, callback) == [id |-> id, url |-> url, callback |-> callback]
\* The None that stop() puts on the queue.
NoneItem == [id |-> 0, url |-> NoneUrl, callback |-> FALSE]

\* threading.Thread(target=self._worker): pc is the position inside _worker,
\* stop_seen the pc at which the first stop() on this thread found it.
NewThread == [pc |-> "while", request_item |-> NoneItem, stop_seen |-> "none"]

is_alive(t) == threads[t].pc # "exited"

\* response.raise_for_status() raises HTTPError for a 4xx or 5xx status.
RaisesForStatus(status_code) == status_code >= 400 /\ status_code < 600
\* bool(response), as in "x if e.response else y": Response.__bool__ is
\* Response.ok, which is False exactly when raise_for_status() raises.
ResponseTruthy(status_code) == ~RaisesForStatus(status_code)

\* response.text, and the text the error payload holds in its place when the
\* response of the HTTPError is None or falsy.
ResponseText == "response.text"
NoResponseText == "N/A (e.response was None/False)"

\* _worker with "except RequestException" placed before "except Timeout":
\* a timeout is reported by the block of its base class.
CallbackArgs_timeout_as_request_exception(outcome) ==
    IF outcome.kind = "response" /\ ~RaisesForStatus(outcome.status_code)
    THEN [success |-> TRUE, error_origin |-> "",
          status_code |-> {outcome.status_code},
          payload_status_code |-> {}, payload_text |-> "", outcome |-> outcome]
    ELSE IF outcome.kind = "response"
    THEN [success |-> FALSE, error_origin |-> "HTTPError_Block",
          status_code |-> IF ResponseTruthy(outcome.status_code)
                          THEN {outcome.status_code} ELSE {},
          payload_status_code |-> IF ResponseTruthy(outcome.status_code)
                                  THEN {outcome.status_code} ELSE {},
          payload_text |-> IF ResponseTruthy(outcome.status_code)
                           THEN ResponseText ELSE NoResponseText,
          outcome |-> outcome]
    ELSE [success |-> FALSE, error_origin |-> "RequestException_Block",
          status_code |-> {}, payload_status_code |-> {}, payload_text |-> "",
          outcome |-> outcome]

\* The arguments _worker hands to the callback for one outcome of the POST:
\* success, the error payload and status_code; {} stands for None. Of the
\* payload: error_origin, response_status_code_on_exception_obj (a status
\* code, or {} for the N/A text) and response_text_on_exception_obj ("" where
\* the payload has no such key). outcome is what the POST ended with, as the
\* log keeps it.
CallbackArgs(outcome) ==
    IF outcome.kind = "response" /\ ~RaisesForStatus(outcome.status_code)
    THEN [success |-> TRUE, error_origin |-> "",
          status_code |-> {outcome.status_code},
          payload_status_code |-> {}, payload_text |-> "", outcome |-> outcome]
    ELSE IF outcome.kind = "response"
    THEN [success |-> FALSE, error_origin |-> "HTTPError_Block",
          status_code |-> IF ResponseTruthy(outcome.status_code)
                          THEN {outcome.status_code} ELSE {},
          payload_status_code |-> IF ResponseTruthy(outcome.status_code)
                                  THEN {outcome.status_code} ELSE {},
          payload_text |-> IF ResponseTruthy(outcome.status_code)
                           THEN ResponseText ELSE NoResponseText,
          outcome |-> outcome]
    ELSE IF outcome.kind = "Timeout"
    THEN [success |-> FALSE, error_origin |-> "Timeout_Block",
          status_code |-> {}, payload_status_code |-> {}, payload_text |-> "",
          outcome |-> outcome]
    ELSE [success |-> FALSE, error_origin |-> "RequestException_Block",
          status_code |-> {}, payload_status_code |-> {}, payload_text |-> "",
          outcome |-> outcome]

\* The arguments send_json_post_request hands to the callback for a URL that
\* _is_url_valid rejects.
UrlValidationArgs ==
    [success |-> FALSE, error_origin |-> "URLValidation", status_code |-> {},
     payload_status_code |-> {}, payload_text |-> "",
     outcome |-> [kind |-> "InvalidUrl", status_code |-> 0]]

\* One callback invocation: request id, arguments, and the thread that made
\* it (0: the thread that called send_json_post_request).
Invocation(id, args, thread) ==
    [id |-> id, success |-> args.success, error_origin |-> args.error_origin,
     status_code |-> args.status_code,
     payload_status_code |-> args.payload_status_code,
     payload_text |-> args.payload_text, outcome |-> args.outcome,
     thread |-> thread]

\* The state after plugin start has built the HttpClient and the SystemLookup,
\* before start(); the lookup is enabled, as DefaultSettings has it.
\* The API URLs of the preferences: none, and one with a trailing slash.
NoApiUrl == <<>>
ApiUrlSlash == <<"h","t","t","p",":","/","/","a",".","i","o","/">>
ApiUrls == {NoApiUrl, ApiUrlSlash}

\* DataHandler.__init__ as plugin_start calls it: settings, http_client and
\* system_lookup are set and the last-value cache is None; {} stands for
\* None.
NewDataHandler ==
    [settings |-> TRUE, http_client |-> TRUE, system_lookup |-> TRUE,
     cached_system_address |-> {}, cached_system_name |-> {},
     cached_was_discovered |-> {}, cached_discovery_source |-> {}]

\* Settings.plugin_enabled and Settings.api_url of a configured plugin;
\* refresh_settings changes them.
DefaultPreferences == [plugin_enabled |-> TRUE, api_url |-> ApiUrlSlash]

Init ==
    /\ request_queue = <<>>
    /\ shutdown_event = FALSE
    /\ worker_thread = 0
    /\ threads = <<>>
    /\ stop_pc = "idle"
    /\ calls = <<>>
    /\ posts = <<>>
    /\ callbacks = <<>>
    /\ start_calls = 0
    /\ stop_calls = 0
    /\ gets = <<>>
    /\ package = "sal"
    /\ settings = {[system_lookup_enabled |-> TRUE]}
    /\ http_client = TRUE
    /\ discovery_cache = <<>>
    /\ lookup = NoLookup
    /\ other_lookup = NoLookup
    /\ validation = NoValidation
    /\ lookups = <<>>
    /\ data_handler = NewDataHandler
    /\ preferences = DefaultPreferences
    /\ entries = <<>>

\* start() without the test of line 58: it spawns a worker on every call.
start_always_spawns ==
    /\ stop_pc = "idle"
    /\ start_calls + stop_calls < MaxLifecycleCalls
    /\ start_calls' = start_calls + 1
    /\ shutdown_event' = FALSE
    /\ threads' = Append(threads, NewThread)
    /\ worker_thread' = Len(threads) + 1
    /\ UNCHANGED <<request_queue, stop_pc, calls, posts, callbacks, stop_calls>>
    /\ UNCHANGED <<get_vars, lookup_vars, validator_vars, handler_vars>>

\* HttpClient.start
start ==
    /\ stop_pc = "idle"
    /\ start_calls + stop_calls < MaxLifecycleCalls
    /\ start_calls' = start_calls + 1
    /\ IF worker_thread = 0 \/ ~is_alive(worker_thread)
       THEN /\ shutdown_event' = FALSE
            /\ threads' = Append(threads, NewThread)
            /\ worker_thread' = Len(threads) + 1
       ELSE UNCHANGED <<shutdown_event, threads, worker_thread>>
    /\ UNCHANGED <<request_queue, stop_pc, calls, posts, callbacks, stop_calls>>
    /\ UNCHANGED <<get_vars, lookup_vars, validator_vars, handler_vars>>

\* HttpClient.stop, line 72: self._shutdown_event.set()
stop_set ==
    /\ stop_pc = "idle"
    /\ start_calls + stop_calls < MaxLifecycleCalls
    /\ stop_calls' = stop_calls + 1
    /\ shutdown_event' = TRUE
    /\ stop_pc' = "check"
    /\ threads' =
         IF worker_thread # 0 /\ threads[worker_thread].stop_seen = "none"
         THEN [threads EXCEPT ![worker_thread].stop_seen = threads[worker_thread].pc]
         ELSE threads
    /\ UNCHANGED <<request_queue, worker_thread, calls, posts, callbacks, start_calls>>
    /\ UNCHANGED <<get_vars, lookup_vars, validator_vars, handler_vars>>

\* stop() testing only "if self._worker_thread", without is_alive().
stop_check_no_is_alive ==
    /\ stop_pc = "check"
    /\ IF worker_thread # 0
       THEN /\ stop_pc' = "put"
            /\ UNCHANGED worker_thread
       ELSE /\ stop_pc' = "idle"
            /\ worker_thread' = 0
    /\ UNCHANGED <<request_queue, shutdown_event, threads, calls, posts,
                   callbacks, start_calls, stop_calls>>
    /\ UNCHANGED <<get_vars, lookup_vars, validator_vars, handler_vars>>

\* HttpClient.stop, line 73: if self._worker_thread and it is alive; the else
\* branch falls through to line 86.
stop_check ==
    /\ stop_pc = "check"
    /\ IF worker_thread # 0 /\ is_alive(worker_thread)
       THEN /\ stop_pc' = "put"
            /\ UNCHANGED worker_thread
       ELSE /\ stop_pc' = "idle"
            /\ worker_thread' = 0
    /\ UNCHANGED <<request_queue, shutdown_event, threads, calls, posts,
                   callbacks, start_calls, stop_calls>>
    /\ UNCHANGED <<get_vars, lookup_vars, validator_vars, handler_vars>>

\* HttpClient.stop, line 75: self._request_queue.put_nowait(None)
stop_put ==
    /\ stop_pc = "put"
    /\ request_queue' = Append(request_queue, NoneItem)
    /\ stop_pc' = "join"
    /\ UNCHANGED <<shutdown_event, worker_thread, threads, calls, posts,
                   callbacks, start_calls, stop_calls>>
    /\ UNCHANGED <<get_vars, lookup_vars, validator_vars, handler_vars>>

\* HttpClient.stop, lines 79-86: join(timeout) returns when the worker has
\* exited, or times out while a POST of the worker is still in flight; then
\* self._worker_thread = None.
stop_join ==
    /\ stop_pc = "join"
    /\ ~is_alive(worker_thread) \/ threads[worker_thread].pc = "post"
    /\ worker_thread' = 0
    /\ stop_pc' = "idle"
    /\ UNCHANGED <<request_queue, shutdown_event, threads, calls, posts,
                   callbacks, start_calls, stop_calls>>
    /\ UNCHANGED <<get_vars, lookup_vars, validator_vars, handler_vars>>

\* send_json_post_request without the return of line 104: the request with
\* the invalid URL is queued after its callback was invoked.
send_json_post_request_no_return(url, callback) ==
    /\ Len(calls) < MaxRequests
    /\ calls' = Append(calls, [url |-> url, callback |-> callback])
    /\ callbacks' =
         IF ~is_url_valid(url) /\ callback
         THEN Append(callbacks,
                Invocation(Len(calls) + 1, UrlValidationArgs, 0))
         ELSE callbacks
    /\ request_queue' =
         Append(request_queue, SalRequest(Len(calls) + 1, url, callback))
    /\ UNCHANGED <<shutdown_event, worker_thread, threads, stop_pc, posts,
                   start_calls, stop_calls>>
    /\ UNCHANGED <<get_vars, lookup_vars, validator_vars, handler_vars>>

\* send_json_post_request putting the request at the head of the queue.
send_json_post_request_put_first(url, callback) ==
    /\ Len(calls) < MaxRequests
    /\ calls' = Append(calls, [url |-> url, callback |-> callback])
    /\ IF ~is_url_valid(url)
       THEN /\ callbacks' =
                 IF callback
                 THEN Append(callbacks,
                        Invocation(Len(calls) + 1, UrlValidationArgs, 0))
                 ELSE callbacks
            /\ UNCHANGED request_queue
       ELSE /\ request_queue' =
                 <<SalRequest(Len(calls) + 1, url, callback)>> \o request_queue
            /\ UNCHANGED callbacks
    /\ UNCHANGED <<shutdown_event, worker_thread, threads, stop_pc, posts,
                   start_calls, stop_calls>>
    /\ UNCHANGED <<get_vars, lookup_vars, validator_vars, handler_vars>>

\* HttpClient.send_json_post_request
send_json_post_request(url, callback) ==
    /\ Len(calls) < MaxRequests
    /\ calls' = Append(calls, [url |-> url, callback |-> callback])
    /\ IF ~is_url_valid(url)
       THEN /\ callbacks' =
                 IF callback
                 THEN Append(callbacks,
                        Invocation(Len(calls) + 1, UrlValidationArgs, 0))
                 ELSE callbacks
            /\ UNCHANGED request_queue
       ELSE /\ request_queue' =
                 Append(request_queue, SalRequest(Len(calls) + 1, url, callback))
            /\ UNCHANGED callbacks
    /\ UNCHANGED <<shutdown_event, worker_thread, threads, stop_pc, posts,
                   start_calls, stop_calls>>
    /\ UNCHANGED <<get_vars, lookup_vars, validator_vars, handler_vars>>

\* _worker, line 168: while not self._shutdown_event.is_set()
worker_while(t) ==
    /\ threads[t].pc = "while"
    /\ threads' = [threads EXCEPT ![t].pc =
                      IF shutdown_event THEN "exited" ELSE "get"]
    /\ UNCHANGED <<request_queue, shutdown_event, worker_thread, stop_pc, calls,
                   posts, callbacks, start_calls, stop_calls>>
    /\ UNCHANGED <<get_vars, lookup_vars, validator_vars, handler_vars>>

\* _worker taking the newest item instead of the oldest (a LIFO queue).
worker_get_lifo(t) ==
    /\ threads[t].pc = "get"
    /\ request_queue # <<>>
    /\ LET request_item == request_queue[Len(request_queue)]
       IN  /\ request_queue' = SubSeq(request_queue, 1, Len(request_queue) - 1)
           /\ IF request_item = NoneItem \/ shutdown_event
              THEN /\ threads' = [threads EXCEPT ![t].pc = "exited"]
                   /\ UNCHANGED posts
              ELSE /\ threads' = [threads EXCEPT ![t].pc = "post",
                                                 ![t].request_item = request_item]
                   /\ posts' = Append(posts, [id |-> request_item.id, thread |-> t,
                                              outcome |-> "pending"])
    /\ UNCHANGED <<shutdown_event, worker_thread, stop_pc, calls, callbacks,
                   start_calls, stop_calls>>
    /\ UNCHANGED <<get_vars, lookup_vars, validator_vars, handler_vars>>


\* _worker testing only "request_item is None" at line 172: a request taken
\* after the shutdown event was set is sent.
worker_get_ignores_shutdown(t) ==
    /\ threads[t].pc = "get"
    /\ request_queue # <<>>
    /\ LET request_item == Head(request_queue)
       IN  /\ request_queue' = Tail(request_queue)
           /\ IF request_item = NoneItem
              THEN /\ threads' = [threads EXCEPT ![t].pc = "exited"]
                   /\ UNCHANGED posts
              ELSE /\ threads' = [threads EXCEPT ![t].pc = "post",
                                                 ![t].request_item = request_item]
                   /\ posts' = Append(posts, [id |-> request_item.id, thread |-> t,
                                              outcome |-> "pending"])
    /\ UNCHANGED <<shutdown_event, worker_thread, stop_pc, calls, callbacks,
                   start_calls, stop_calls>>
    /\ UNCHANGED <<get_vars, lookup_vars, validator_vars, handler_vars>>

\* _worker, lines 170-183: get() returns an item; None or a set shutdown
\* event breaks the loop, otherwise requests.post is issued.
worker_get(t) ==
    /\ threads[t].pc = "get"
    /\ request_queue # <<>>
    /\ LET request_item == Head(request_queue)
       IN  /\ request_queue' = Tail(request_queue)
           /\ IF request_item = NoneItem \/ shutdown_event
              THEN /\ threads' = [threads EXCEPT ![t].pc = "exited"]
                   /\ UNCHANGED posts
              ELSE /\ threads' = [threads EXCEPT ![t].pc = "post",
                                                 ![t].request_item = request_item]
                   /\ posts' = Append(posts, [id |-> request_item.id, thread |-> t,
                                              outcome |-> "pending"])
    /\ UNCHANGED <<shutdown_event, worker_thread, stop_pc, calls, callbacks,
                   start_calls, stop_calls>>
    /\ UNCHANGED <<get_vars, lookup_vars, validator_vars, handler_vars>>

\* _worker, lines 170 and 240-241: get() times out on an empty queue
worker_empty(t) ==
    /\ threads[t].pc = "get"
    /\ request_queue = <<>>
    /\ threads' = [threads EXCEPT ![t].pc = "while"]
    /\ UNCHANGED <<request_queue, shutdown_event, worker_thread, stop_pc, calls,
                   posts, callbacks, start_calls, stop_calls>>
    /\ UNCHANGED <<get_vars, lookup_vars, validator_vars, handler_vars>>

\* The outcome of a POST as the posts log records it.
Handled(outcome) == IF outcome.kind = "Exception" THEN "unhandled" ELSE "handled"

\* _worker with the callback invoked once more in the finally block.
worker_post_done_callback_in_finally(t, outcome) ==
    /\ threads[t].pc = "post"
    /\ LET request_item == threads[t].request_item
           invocation == Invocation(request_item.id, CallbackArgs(outcome), t)
       IN  /\ posts' = [i \in 1..Len(posts) |->
                          IF posts[i].id = request_item.id
                          THEN [posts[i] EXCEPT !.outcome = Handled(outcome)]
                          ELSE posts[i]]
           /\ callbacks' =
                IF request_item.callback /\ outcome.kind # "Exception"
                THEN callbacks \o <<invocation, invocation>>
                ELSE callbacks
    /\ threads' = [threads EXCEPT ![t].pc =
                      IF outcome.kind = "Exception" THEN "sleep" ELSE "while"]
    /\ UNCHANGED <<request_queue, shutdown_event, worker_thread, stop_pc, calls,
                   start_calls, stop_calls>>
    /\ UNCHANGED <<get_vars, lookup_vars, validator_vars, handler_vars>>

\* _worker abandoning the request in flight, without a callback, when the
\* shutdown event is set by the time the POST ends.
worker_post_done_abort_on_shutdown(t, outcome) ==
    /\ threads[t].pc = "post"
    /\ LET request_item == threads[t].request_item
       IN  /\ posts' = [i \in 1..Len(posts) |->
                          IF posts[i].id = request_item.id
                          THEN [posts[i] EXCEPT !.outcome = Handled(outcome)]
                          ELSE posts[i]]
           /\ callbacks' =
                IF request_item.callback /\ outcome.kind # "Exception"
                   /\ ~shutdown_event
                THEN Append(callbacks,
                            Invocation(request_item.id, CallbackArgs(outcome), t))
                ELSE callbacks
    /\ threads' = [threads EXCEPT ![t].pc =
                      IF outcome.kind = "Exception" THEN "sleep" ELSE "while"]
    /\ UNCHANGED <<request_queue, shutdown_event, worker_thread, stop_pc, calls,
                   start_calls, stop_calls>>
    /\ UNCHANGED <<get_vars, lookup_vars, validator_vars, handler_vars>>

\* _worker invoking the callback only from its except blocks.
worker_post_done_no_success_callback(t, outcome) ==
    /\ threads[t].pc = "post"
    /\ LET request_item == threads[t].request_item
       IN  /\ posts' = [i \in 1..Len(posts) |->
                          IF posts[i].id = request_item.id
                          THEN [posts[i] EXCEPT !.outcome = Handled(outcome)]
                          ELSE posts[i]]
           /\ callbacks' =
                IF request_item.callback /\ outcome.kind # "Exception"
                   /\ ~CallbackArgs(outcome).success
                THEN Append(callbacks,
                            Invocation(request_item.id, CallbackArgs(outcome), t))
                ELSE callbacks
    /\ threads' = [threads EXCEPT ![t].pc =
                      IF outcome.kind = "Exception" THEN "sleep" ELSE "while"]
    /\ UNCHANGED <<request_queue, shutdown_event, worker_thread, stop_pc, calls,
                   start_calls, stop_calls>>
    /\ UNCHANGED <<get_vars, lookup_vars, validator_vars, handler_vars>>

\* _worker without the except of line 242: an exception of no requests class
\* leaves the loop and ends the thread.
worker_post_done_exception_ends_thread(t, outcome) ==
    /\ threads[t].pc = "post"
    /\ LET request_item == threads[t].request_item
       IN  /\ posts' = [i \in 1..Len(posts) |->
                          IF posts[i].id = request_item.id
                          THEN [posts[i] EXCEPT !.outcome = Handled(outcome)]
                          ELSE posts[i]]
           /\ callbacks' =
                IF request_item.callback /\ outcome.kind # "Exception"
                THEN Append(callbacks,
                            Invocation(request_item.id, CallbackArgs(outcome), t))
                ELSE callbacks
    /\ threads' = [threads EXCEPT ![t].pc =
                      IF outcome.kind = "Exception" THEN "exited" ELSE "while"]
    /\ UNCHANGED <<request_queue, shutdown_event, worker_thread, stop_pc, calls,
                   start_calls, stop_calls>>
    /\ UNCHANGED <<get_vars, lookup_vars, validator_vars, handler_vars>>

\* _worker putting a request whose POST failed back on the queue.
worker_post_done_requeue_on_failure(t, outcome) ==
    /\ threads[t].pc = "post"
    /\ LET request_item == threads[t].request_item
       IN  /\ posts' = [i \in 1..Len(posts) |->
                          IF posts[i].id = request_item.id
                          THEN [posts[i] EXCEPT !.outcome = Handled(outcome)]
                          ELSE posts[i]]
           /\ callbacks' =
                IF request_item.callback /\ outcome.kind # "Exception"
                THEN Append(callbacks,
                            Invocation(request_item.id, CallbackArgs(outcome), t))
                ELSE callbacks
           /\ request_queue' =
                IF CallbackArgs(outcome).success THEN request_queue
                ELSE Append(request_queue, request_item)
    /\ threads' = [threads EXCEPT ![t].pc =
                      IF outcome.kind = "Exception" THEN "sleep" ELSE "while"]
    /\ UNCHANGED <<shutdown_event, worker_thread, stop_pc, calls,
                   start_calls, stop_calls>>
    /\ UNCHANGED <<get_vars, lookup_vars, validator_vars, handler_vars>>

\* _worker, lines 178-244: the POST ends with outcome; the callback, if any,
\* is invoked for every outcome the inner try handles; an exception of another
\* class reaches line 242 and the worker sleeps.
worker_post_done(t, outcome) ==
    /\ threads[t].pc = "post"
    /\ LET request_item == threads[t].request_item
       IN  /\ posts' = [i \in 1..Len(posts) |->
                          IF posts[i].id = request_item.id
                          THEN [posts[i] EXCEPT !.outcome = Handled(outcome)]
                          ELSE posts[i]]
           /\ callbacks' =
                IF request_item.callback /\ outcome.kind # "Exception"
                THEN Append(callbacks,
                            Invocation(request_item.id, CallbackArgs(outcome), t))
                ELSE callbacks
    /\ threads' = [threads EXCEPT ![t].pc =
                      IF outcome.kind = "Exception" THEN "sleep" ELSE "while"]
    /\ UNCHANGED <<request_queue, shutdown_event, worker_thread, stop_pc, calls,
                   start_calls, stop_calls>>
    /\ UNCHANGED <<get_vars, lookup_vars, validator_vars, handler_vars>>

\* _worker, line 244: time.sleep(WORKER_SLEEP_S * 5) returns
worker_wake(t) ==
    /\ threads[t].pc = "sleep"
    /\ threads' = [threads EXCEPT ![t].pc = "while"]
    /\ UNCHANGED <<request_queue, shutdown_event, worker_thread, stop_pc, calls,
                   posts, callbacks, start_calls, stop_calls>>
    /\ UNCHANGED <<get_vars, lookup_vars, validator_vars, handler_vars>>

Next ==
    \/ start
    \/ stop_set
    \/ stop_check
    \/ stop_put
    \/ stop_join
    \/ \E url \in PostUrls, callback \in BOOLEAN : send_json_post_request(url, callback)
    \/ \E t \in 1..Len(threads) : worker_while(t)
    \/ \E t \in 1..Len(threads) : worker_get(t)
    \/ \E t \in 1..Len(threads) : worker_empty(t)
    \/ \E t \in 1..Len(threads), outcome \in PostOutcomes : worker_post_done(t, outcome)
    \/ \E t \in 1..Len(threads) : worker_wake(t)

Spec == Init /\ [][Next]_vars

\* The worker threads are scheduled, queue.get() returns or times out, every
\* POST ends and time.sleep() returns; a stop() that was called runs on.
WorkerNext(t) ==
    /\ t \in 1..Len(threads)
    /\ \/ worker_while(t)
       \/ worker_get(t)
       \/ worker_empty(t)
       \/ \E outcome \in PostOutcomes : worker_post_done(t, outcome)
       \/ worker_wake(t)

FairBound == start_calls + stop_calls <= MaxFairLifecycleCalls
FairNext ==
    \/ start /\ FairBound'
    \/ stop_set /\ FairBound'
    \/ stop_check
    \/ stop_put
    \/ stop_join
    \/ \E url \in PostUrls, callback \in BOOLEAN : send_json_post_request(url, callback)
    \/ \E t \in 1..Len(threads) : worker_while(t)
    \/ \E t \in 1..Len(threads) : worker_get(t)
    \/ \E t \in 1..Len(threads) : worker_empty(t)
    \/ \E t \in 1..Len(threads), outcome \in PostOutcomes : worker_post_done(t, outcome)
    \/ \E t \in 1..Len(threads) : worker_wake(t)

FairSpec ==
    /\ Init /\ [][FairNext]_vars
    /\ \A t \in 1..MaxFairLifecycleCalls : WF_vars(WorkerNext(t))
    /\ WF_vars(stop_check \/ stop_put \/ stop_join)

\* ------------------------------------------------- the synchronous GET
\* The URLs the callers hand to send_get_request_sync.
GetUrls == {ValidUrl, NoSchemeUrl}

\* The body of a response: a JSON document, or text response.json() rejects.
GetBodies == {"json", "text"}
\* What requests.get(...) does: it returns a response, or raises Timeout,
\* another RequestException, or an exception of no requests class.
GetOutcomes ==
    {[kind |-> "response", status_code |-> s, body |-> b] :
        s \in StatusCodes, b \in GetBodies}
    \cup {[kind |-> k, status_code |-> 0, body |-> ""] :
            k \in {"Timeout", "RequestException", "Exception"}}
\* The outcome the log keeps for a call that issued no request.
NoOutcome == [kind |-> "none", status_code |-> 0, body |-> ""]

\* response.json(), or response.text for a body that is no JSON; the JSON
\* null gives None.
Json(body) == IF body = "null" THEN {} ELSE {body}

\* str(e) of the exception caught.
StrOfException == "str(e)"

\* send_get_request_sync without its last handler, "except Exception".
SyncGet_no_except_exception(url, outcome) ==
    IF ~is_url_valid(url)
    THEN [network |-> FALSE, raised |-> FALSE, data |-> {}, status_code |-> {},
          error_message |-> {"Invalid URL provided"}]
    ELSE IF outcome.kind = "response" /\ ~RaisesForStatus(outcome.status_code)
    THEN [network |-> TRUE, raised |-> FALSE, data |-> Json(outcome.body),
          status_code |-> {outcome.status_code}, error_message |-> {}]
    ELSE IF outcome.kind = "response"
    THEN [network |-> TRUE, raised |-> FALSE, data |-> {},
          status_code |-> IF ResponseTruthy(outcome.status_code)
                          THEN {outcome.status_code} ELSE {},
          error_message |-> {StrOfException}]
    ELSE IF outcome.kind = "Timeout"
    THEN [network |-> TRUE, raised |-> FALSE, data |-> {}, status_code |-> {},
          error_message |-> {"Request timed out"}]
    ELSE IF outcome.kind = "RequestException"
    THEN [network |-> TRUE, raised |-> FALSE, data |-> {}, status_code |-> {},
          error_message |-> {StrOfException}]
    ELSE [network |-> TRUE, raised |-> TRUE, data |-> {}, status_code |-> {},
          error_message |-> {}]

\* send_get_request_sync without the test of the URL: requests.get is called
\* with whatever URL it was given.
SyncGet_no_url_check(url, outcome) ==
    IF outcome.kind = "response" /\ ~RaisesForStatus(outcome.status_code)
    THEN [network |-> TRUE, raised |-> FALSE, data |-> Json(outcome.body),
          status_code |-> {outcome.status_code}, error_message |-> {}]
    ELSE IF outcome.kind = "response"
    THEN [network |-> TRUE, raised |-> FALSE, data |-> {},
          status_code |-> IF ResponseTruthy(outcome.status_code)
                          THEN {outcome.status_code} ELSE {},
          error_message |-> {StrOfException}]
    ELSE IF outcome.kind = "Timeout"
    THEN [network |-> TRUE, raised |-> FALSE, data |-> {}, status_code |-> {},
          error_message |-> {"Request timed out"}]
    ELSE IF outcome.kind = "RequestException"
    THEN [network |-> TRUE, raised |-> FALSE, data |-> {}, status_code |-> {},
          error_message |-> {StrOfException}]
    ELSE [network |-> TRUE, raised |-> FALSE, data |-> {}, status_code |-> {},
          error_message |-> {"Unexpected error occurred"}]

\* What send_get_request_sync does with url when requests.get ends with
\* outcome: whether it called requests.get at all (network), whether it
\* raised, and the triple it returned; {} stands for None.  The data are
\* response.json(), or response.text when the body is no JSON.
SyncGet(url, outcome) ==
    IF ~is_url_valid(url)
    THEN [network |-> FALSE, raised |-> FALSE, data |-> {}, status_code |-> {},
          error_message |-> {"Invalid URL provided"}]
    ELSE IF outcome.kind = "response" /\ ~RaisesForStatus(outcome.status_code)
    THEN [network |-> TRUE, raised |-> FALSE, data |-> Json(outcome.body),
          status_code |-> {outcome.status_code}, error_message |-> {}]
    ELSE IF outcome.kind = "response"
    THEN [network |-> TRUE, raised |-> FALSE, data |-> {},
          status_code |-> IF ResponseTruthy(outcome.status_code)
                          THEN {outcome.status_code} ELSE {},
          error_message |-> {StrOfException}]
    ELSE IF outcome.kind = "Timeout"
    THEN [network |-> TRUE, raised |-> FALSE, data |-> {}, status_code |-> {},
          error_message |-> {"Request timed out"}]
    ELSE IF outcome.kind = "RequestException"
    THEN [network |-> TRUE, raised |-> FALSE, data |-> {}, status_code |-> {},
          error_message |-> {StrOfException}]
    ELSE [network |-> TRUE, raised |-> FALSE, data |-> {}, status_code |-> {},
          error_message |-> {"Unexpected error occurred"}]

\* HttpClient.send_get_request_sync, on the thread of its caller; the log
\* keeps the URL, what requests.get did if it was called, whether the worker
\* was running, and what the call returned.
send_get_request_sync(url, outcome) ==
    /\ Len(gets) < MaxGets
    /\ LET result == SyncGet(url, outcome)
       IN  gets' = Append(gets,
                     [url |-> url,
                      outcome |-> IF result.network THEN outcome ELSE NoOutcome,
                      running |-> worker_thread # 0 /\ is_alive(worker_thread),
                      result |-> result])
    /\ UNCHANGED <<client_vars, lookup_vars, validator_vars, handler_vars>>

\* The client with its synchronous GET: the control thread starts and stops
\* it, the worker polls the queue, and callers issue GETs at any time.
GetBound == start_calls + stop_calls <= MaxGetLifecycleCalls
GetNext ==
    \/ start /\ GetBound'
    \/ stop_set /\ GetBound'
    \/ stop_check
    \/ stop_put
    \/ stop_join
    \/ \E t \in 1..Len(threads) : worker_while(t)
    \/ \E t \in 1..Len(threads) : worker_get(t)
    \/ \E t \in 1..Len(threads) : worker_empty(t)
    \/ \E url \in GetUrls, outcome \in GetOutcomes : send_get_request_sync(url, outcome)

GetSpec == Init /\ [][GetNext]_vars

\* ------------------------------------------------- the discovery lookup
\* ApiEndpoints of sal/constants.py.
EDSM_API_SYSTEM_URL ==
    StrUrl(<<"h","t","t","p","s",":","/","/","w","w","w",".","e","d","s","m",
             ".","n","e","t","/","a","p","i","-","v","1","/","s","y","s","t",
             "e","m">>)
SPANSH_API_SYSTEM_URL ==
    StrUrl(<<"h","t","t","p","s",":","/","/","w","w","w",".","s","p","a","n",
             "s","h",".","c","o",".","u","k","/","a","p","i","/","s","y","s",
             "t","e","m">>)
EDASTRO_API_SYSTEM_URL ==
    StrUrl(<<"h","t","t","p","s",":","/","/","e","d","a","s","t","r","o",".",
             "c","o","m","/","a","p","i","/","s","t","a","r","s","y","s","t",
             "e","m">>)

\* The systems the journal names: StarSystem ("" when the entry has none)
\* and SystemAddress, and the WasDiscovered of the entry ({} for None).
SystemNames == {"", "Sol"}
SystemAddresses == {0, 7}
JournalHints == {{}, {TRUE}, {FALSE}}

\* The characters of str(n) for a natural number n.
DecimalDigits == <<"0","1","2","3","4","5","6","7","8","9">>
RECURSIVE StrOfNat(_)
StrOfNat(n) ==
    IF n < 10 THEN <<DecimalDigits[n + 1]>>
    ELSE StrOfNat(n \div 10) \o <<DecimalDigits[(n % 10) + 1]>>

\* f"{ApiLinks.SPANSH_API_SYSTEM_URL}/{system_address}"
SpanshUrl(system_address) ==
    StrUrl(SPANSH_API_SYSTEM_URL.chars \o <<"/">> \o StrOfNat(system_address))

\* The bodies the lookup services answer with: a JSON object with a name, a
\* system or a record key, an empty object, a list with or without elements,
\* the JSON null, or text that is no JSON.
ProviderBodies ==
    {"dict_name", "dict_system", "dict_record", "dict_empty",
     "list", "list_empty", "null", "text"}
ProviderOutcomes ==
    {[kind |-> "response", status_code |-> s, body |-> b] :
        s \in StatusCodes, b \in ProviderBodies}
    \cup {[kind |-> k, status_code |-> 0, body |-> ""] :
            k \in {"Timeout", "RequestException", "Exception"}}

\* What send_get_request_sync returns for the URLs of the lookup services.
ProviderUrls ==
    {EDSM_API_SYSTEM_URL, EDASTRO_API_SYSTEM_URL}
    \cup {SpanshUrl(a) : a \in SystemAddresses}
ProviderGet ==
    [url \in ProviderUrls |-> [outcome \in ProviderOutcomes |-> SyncGet(url, outcome)]]

\* requests.get came back with a response whose status is 200.
Answered200(outcome) == outcome.kind = "response" /\ outcome.status_code = 200

\* The queries taking every response for an answer, whatever its status.
QueryFailed_ignores_status(result) == result.error_message # {}

\* "if error_message or status_code != 200" of the three queries.
QueryFailed(result) == result.error_message # {} \/ result.status_code # {200}

\* SystemLookup._query_edsm: whether send_get_request_sync was called (get),
\* whether requests.get answered with status 200 (ok) and the value returned
\* (found).
query_edsm(system_name, outcome) ==
    IF system_name = "" \/ ~http_client
    THEN [get |-> FALSE, ok |-> FALSE, found |-> FALSE]
    ELSE LET result == ProviderGet[EDSM_API_SYSTEM_URL][outcome]
         IN  [get |-> TRUE, ok |-> Answered200(outcome),
              found |-> ~QueryFailed(result) /\ result.data = {"dict_name"}]

\* SystemLookup._query_spansh
query_spansh(system_address, outcome) ==
    IF system_address = 0 \/ ~http_client
    THEN [get |-> FALSE, ok |-> FALSE, found |-> FALSE]
    ELSE LET result == ProviderGet[SpanshUrl(system_address)][outcome]
         IN  [get |-> TRUE, ok |-> Answered200(outcome),
              found |-> ~QueryFailed(result)
                        /\ result.data \in {{"dict_system"}, {"dict_record"}}]

\* SystemLookup._query_edastro
query_edastro(system_address, outcome) ==
    IF system_address = 0 \/ ~http_client
    THEN [get |-> FALSE, ok |-> FALSE, found |-> FALSE]
    ELSE LET result == ProviderGet[EDASTRO_API_SYSTEM_URL][outcome]
         IN  [get |-> TRUE, ok |-> Answered200(outcome),
              found |-> ~QueryFailed(result)
                        /\ result.data \in {{"dict_system"}, {"list"}}]

\* cache_key = f"{system_name}_{system_address}"
cache_key(system_name, system_address) ==
    system_name \o "_" \o ToString(system_address)

\* ','.join(discovery_sources)
RECURSIVE Join(_)
Join(strings) ==
    IF strings = <<>> THEN ""
    ELSE IF Len(strings) = 1 THEN strings[1]
    ELSE strings[1] \o "," \o Join(Tail(strings))

\* "self.settings is None or not self.settings.system_lookup_enabled" is false
LookupEnabled == settings # {} /\ \A st \in settings : st.system_lookup_enabled

\* What the log keeps of a call that returned: its arguments, whether the
\* lookup was enabled and the key cached when it was made, the services it
\* sent a GET to and those whose query returned True, each in the order of
\* the calls, and the tuple it returned.
LookupReturned(system_name, system_address, original_was_discovered, enabled, hit, queried, found, result) ==
    [system_name |-> system_name, system_address |-> system_address,
     original_was_discovered |-> original_was_discovered,
     enabled |-> enabled, hit |-> hit, queried |-> queried, found |-> found,
     result |-> result]

\* "original_was_discovered if original_was_discovered is not None else False"
JournalResult(original_was_discovered) ==
    [is_discovered |-> original_was_discovered = {TRUE}, source_info |-> "journal"]

\* check_system_discovery_status testing the cache before the settings.
check_system_discovery_status_cache_first(system_name, system_address, original_was_discovered) ==
    /\ lookup.pc = "idle"
    /\ Len(lookups) < MaxLookups
    /\ LET key == cache_key(system_name, system_address)
       IN  IF key \in DOMAIN discovery_cache
           THEN /\ lookups' = Append(lookups,
                      LookupReturned(system_name, system_address,
                                     original_was_discovered, LookupEnabled,
                                     TRUE, <<>>, <<>>, discovery_cache[key]))
                /\ UNCHANGED lookup
           ELSE IF ~LookupEnabled
           THEN /\ lookups' = Append(lookups,
                      LookupReturned(system_name, system_address,
                                     original_was_discovered, FALSE, FALSE, <<>>, <<>>,
                                     JournalResult(original_was_discovered)))
                /\ UNCHANGED lookup
           ELSE /\ lookup' = [pc |-> "edsm", system_name |-> system_name,
                              system_address |-> system_address,
                              original_was_discovered |-> original_was_discovered,
                              discovery_sources |-> <<>>, queried |-> <<>>,
                              failed |-> <<>>]
                /\ UNCHANGED lookups
    /\ UNCHANGED <<settings, http_client, discovery_cache>>
    /\ UNCHANGED <<client_vars, get_vars, package, other_lookup, validator_vars, handler_vars>>

\* check_system_discovery_status without the test of the cache: every call
\* of an enabled lookup queries the services and writes the cache.
check_system_discovery_status_no_cache_test(system_name, system_address, original_was_discovered) ==
    /\ lookup.pc = "idle"
    /\ Len(lookups) < MaxLookups
    /\ IF ~LookupEnabled
       THEN /\ lookups' = Append(lookups,
                  LookupReturned(system_name, system_address,
                                 original_was_discovered, FALSE, FALSE, <<>>, <<>>,
                                 JournalResult(original_was_discovered)))
            /\ UNCHANGED lookup
       ELSE /\ lookup' = [pc |-> "edsm", system_name |-> system_name,
                          system_address |-> system_address,
                          original_was_discovered |-> original_was_discovered,
                          discovery_sources |-> <<>>, queried |-> <<>>,
                              failed |-> <<>>]
            /\ UNCHANGED lookups
    /\ UNCHANGED <<settings, http_client, discovery_cache>>
    /\ UNCHANGED <<client_vars, get_vars, package, other_lookup, validator_vars, handler_vars>>

\* check_system_discovery_status letting the journal value of the call
\* replace the cached result on a hit.
check_system_discovery_status_hit_takes_hint(system_name, system_address, original_was_discovered) ==
    /\ lookup.pc = "idle"
    /\ Len(lookups) < MaxLookups
    /\ LET key == cache_key(system_name, system_address)
       IN  IF ~LookupEnabled
           THEN /\ lookups' = Append(lookups,
                      LookupReturned(system_name, system_address,
                                     original_was_discovered, FALSE, FALSE, <<>>, <<>>,
                                     JournalResult(original_was_discovered)))
                /\ UNCHANGED lookup
           ELSE IF key \in DOMAIN discovery_cache
           THEN /\ lookups' = Append(lookups,
                      LookupReturned(system_name, system_address,
                                     original_was_discovered, TRUE, TRUE, <<>>, <<>>,
                                     IF original_was_discovered = {}
                                     THEN discovery_cache[key]
                                     ELSE [discovery_cache[key] EXCEPT
                                             !.is_discovered =
                                                original_was_discovered = {TRUE}]))
                /\ UNCHANGED lookup
           ELSE /\ lookup' = [pc |-> "edsm", system_name |-> system_name,
                              system_address |-> system_address,
                              original_was_discovered |-> original_was_discovered,
                              discovery_sources |-> <<>>, queried |-> <<>>,
                              failed |-> <<>>]
                /\ UNCHANGED lookups
    /\ UNCHANGED <<settings, http_client, discovery_cache>>
    /\ UNCHANGED <<client_vars, get_vars, package, other_lookup, validator_vars, handler_vars>>

\* SystemLookup.check_system_discovery_status, lines 171-187: the call
\* returns the journal value when the lookup is disabled and the cached tuple
\* when the key is cached; otherwise it goes on to query the services.
check_system_discovery_status(system_name, system_address, original_was_discovered) ==
    /\ lookup.pc = "idle"
    /\ Len(lookups) < MaxLookups
    /\ LET key == cache_key(system_name, system_address)
       IN  IF ~LookupEnabled
           THEN /\ lookups' = Append(lookups,
                      LookupReturned(system_name, system_address,
                                     original_was_discovered, FALSE, FALSE, <<>>, <<>>,
                                     JournalResult(original_was_discovered)))
                /\ UNCHANGED lookup
           ELSE IF key \in DOMAIN discovery_cache
           THEN /\ lookups' = Append(lookups,
                      LookupReturned(system_name, system_address,
                                     original_was_discovered, TRUE, TRUE, <<>>, <<>>,
                                     discovery_cache[key]))
                /\ UNCHANGED lookup
           ELSE /\ lookup' = [pc |-> "edsm", system_name |-> system_name,
                              system_address |-> system_address,
                              original_was_discovered |-> original_was_discovered,
                              discovery_sources |-> <<>>, queried |-> <<>>,
                              failed |-> <<>>]
                /\ UNCHANGED lookups
    /\ UNCHANGED <<settings, http_client, discovery_cache>>
    /\ UNCHANGED <<client_vars, get_vars, package, other_lookup, validator_vars, handler_vars>>

\* The call in progress after one query: name is appended to the services
\* queried if a GET was sent, to discovery_sources if the query returned
\* True, and to the services that failed if a GET was sent and did not come
\* back as a response with status 200.
AfterQuery(name, query, pc) ==
    [lookup EXCEPT
        !.pc = pc,
        !.queried = IF query.get THEN Append(@, name) ELSE @,
        !.discovery_sources = IF query.found THEN Append(@, name) ELSE @,
        !.failed = IF query.get /\ ~query.ok THEN Append(@, name) ELSE @]

\* check_system_discovery_status, lines 189-191: the query of EDSM
check_edsm(outcome) ==
    /\ lookup.pc = "edsm"
    /\ lookup' = AfterQuery("EDSM", query_edsm(lookup.system_name, outcome), "spansh")
    /\ UNCHANGED <<settings, http_client, discovery_cache, lookups>>
    /\ UNCHANGED <<client_vars, get_vars, package, other_lookup, validator_vars, handler_vars>>

\* The query of Spansh left out once EDSM has confirmed the system.
check_spansh_short_circuit(outcome) ==
    /\ lookup.pc = "spansh"
    /\ lookup' = IF lookup.discovery_sources # <<>>
                 THEN [lookup EXCEPT !.pc = "edastro"]
                 ELSE AfterQuery("Spansh",
                                 query_spansh(lookup.system_address, outcome),
                                 "edastro")
    /\ UNCHANGED <<settings, http_client, discovery_cache, lookups>>
    /\ UNCHANGED <<client_vars, get_vars, package, other_lookup, validator_vars, handler_vars>>

\* check_system_discovery_status, lines 193-195: the query of Spansh
check_spansh(outcome) ==
    /\ lookup.pc = "spansh"
    /\ lookup' = AfterQuery("Spansh", query_spansh(lookup.system_address, outcome),
                            "edastro")
    /\ UNCHANGED <<settings, http_client, discovery_cache, lookups>>
    /\ UNCHANGED <<client_vars, get_vars, package, other_lookup, validator_vars, handler_vars>>

\* The two copies of the plugin in the repository.
Packages == {"sal", "core"}

\* source_info of sal, lines 202-207: "','.join(discovery_sources)" or
\* "Not found in any source"; of core, line 178:
\* f"external:{','.join(discovery_sources)}" or "external:none".
ExternalSourceInfo(discovery_sources) ==
    IF package = "sal"
    THEN IF discovery_sources # <<>> THEN Join(discovery_sources)
         ELSE "Not found in any source"
    ELSE IF discovery_sources # <<>> THEN "external:" \o Join(discovery_sources)
         ELSE "external:none"

\* DiscoveryResult in which the value of the journal, when there is one,
\* takes the place of what the services answered.
DiscoveryResult_journal_first(call) ==
    IF call.original_was_discovered # {}
    THEN [is_discovered |-> call.original_was_discovered = {TRUE},
          source_info |-> "journal_fallback"]
    ELSE [is_discovered |-> call.discovery_sources # <<>>,
          source_info |-> ExternalSourceInfo(call.discovery_sources)]

\* DiscoveryResult whose journal fallback carries the tag of a disabled
\* lookup, "journal".
DiscoveryResult_fallback_tagged_journal(call) ==
    IF call.discovery_sources = <<>> /\ call.original_was_discovered # {}
    THEN [is_discovered |-> call.original_was_discovered = {TRUE},
          source_info |-> "journal"]
    ELSE [is_discovered |-> call.discovery_sources # <<>>,
          source_info |-> ExternalSourceInfo(call.discovery_sources)]

\* The tuple of lines 201-212 for the call after its last query.
DiscoveryResult(call) ==
    IF call.discovery_sources = <<>> /\ call.original_was_discovered # {}
    THEN [is_discovered |-> call.original_was_discovered = {TRUE},
          source_info |-> "journal_fallback"]
    ELSE [is_discovered |-> call.discovery_sources # <<>>,
          source_info |-> ExternalSourceInfo(call.discovery_sources)]

\* check_system_discovery_status returning without line 215, the cache write.
check_edastro_no_cache_write(outcome) ==
    /\ lookup.pc = "edastro"
    /\ LET call == AfterQuery("Edastro",
                              query_edastro(lookup.system_address, outcome), "idle")
           result == DiscoveryResult(call)
       IN  /\ lookups' = Append(lookups,
                 LookupReturned(call.system_name, call.system_address,
                                call.original_was_discovered, TRUE, FALSE,
                                call.queried, call.discovery_sources,
                                result))
           /\ UNCHANGED discovery_cache
    /\ lookup' = NoLookup
    /\ UNCHANGED <<settings, http_client>>
    /\ UNCHANGED <<client_vars, get_vars, package, other_lookup, validator_vars, handler_vars>>

\* check_system_discovery_status, lines 197-220: the query of Edastro, the
\* result, the cache write and the return.
check_edastro(outcome) ==
    /\ lookup.pc = "edastro"
    /\ LET call == AfterQuery("Edastro",
                              query_edastro(lookup.system_address, outcome), "idle")
           result == DiscoveryResult(call)
           key == cache_key(call.system_name, call.system_address)
       IN  /\ lookups' = Append(lookups,
                 LookupReturned(call.system_name, call.system_address,
                                call.original_was_discovered, TRUE, FALSE,
                                call.queried, call.discovery_sources,
                                result))
           /\ discovery_cache' =
                [k \in DOMAIN discovery_cache \cup {key} |->
                    IF k = key THEN result ELSE discovery_cache[k]]
    /\ lookup' = NoLookup
    /\ UNCHANGED <<settings, http_client>>
    /\ UNCHANGED <<client_vars, get_vars, package, other_lookup, validator_vars, handler_vars>>

\* A cleanup that detaches the client and the settings and leaves the cache.
cleanup_keeps_cache ==
    /\ lookup.pc = "idle"
    /\ http_client' = FALSE
    /\ settings' = {}
    /\ UNCHANGED <<discovery_cache, lookup, lookups>>
    /\ UNCHANGED <<client_vars, get_vars, package, other_lookup, validator_vars, handler_vars>>

\* SystemLookup.cleanup, called by plugin_stop
cleanup ==
    /\ lookup.pc = "idle"
    /\ discovery_cache' = <<>>
    /\ http_client' = FALSE
    /\ settings' = {}
    /\ UNCHANGED <<lookup, lookups>>
    /\ UNCHANGED <<client_vars, get_vars, package, other_lookup, validator_vars, handler_vars>>

\* Settings.refresh_settings: the preferences set plugin_enabled, api_url
\* and system_lookup_enabled.
refresh_settings(plugin_enabled, api_url, system_lookup_enabled) ==
    /\ lookup.pc = "idle"
    /\ settings # {}
    /\ settings' = {[system_lookup_enabled |-> system_lookup_enabled]}
    /\ preferences' = [plugin_enabled |-> plugin_enabled, api_url |-> api_url]
    /\ UNCHANGED <<http_client, discovery_cache, lookup, lookups>>
    /\ UNCHANGED <<client_vars, get_vars, package, other_lookup, validator_vars>>
    /\ UNCHANGED <<data_handler, entries>>

\* The lookup as the plugin drives it, from the one thread that delivers the
\* journal entries and the preferences and stops the plugin.
LookupNext ==
    \/ \E system_name \in SystemNames, system_address \in SystemAddresses,
          original_was_discovered \in JournalHints :
          check_system_discovery_status(system_name, system_address,
                                        original_was_discovered)
    \/ \E outcome \in ProviderOutcomes : check_edsm(outcome)
    \/ \E outcome \in ProviderOutcomes : check_spansh(outcome)
    \/ \E outcome \in ProviderOutcomes : check_edastro(outcome)
    \/ cleanup
    \/ \E system_lookup_enabled \in BOOLEAN :
          refresh_settings(preferences.plugin_enabled, preferences.api_url,
                           system_lookup_enabled)

\* Two threads inside check_system_discovery_status: the interpreter takes
\* the running thread off, between two of its steps, and resumes the other,
\* which may be between two steps of a call of its own or about to make one.
thread_switch ==
    /\ lookup' = other_lookup
    /\ other_lookup' = lookup
    /\ lookup # other_lookup
    /\ UNCHANGED <<package, settings, http_client, discovery_cache, lookups>>
    /\ UNCHANGED <<client_vars, get_vars, validator_vars, handler_vars>>

\* HttpClient._is_url_valid(url_string)
validate(url) ==
    /\ validation' = [called |-> TRUE, url |-> url, result |-> UrlVerdict[url]]
    /\ UNCHANGED <<client_vars, get_vars, lookup_vars, handler_vars>>

ValidatorNext == \E url \in UrlInputs : validate(url)
ValidatorSpec == Init /\ [][ValidatorNext]_vars

\* ------------------------------------------------- a callback that raises
\* What a callback does when the worker invokes it with success True and
\* with success False: it returns ("none") or raises HTTPError, Timeout or
\* another RequestException of requests, queue.Empty, another Exception, or
\* a BaseException that is no Exception.
ExceptionClasses ==
    {"HTTPError", "Timeout", "RequestException", "Empty", "Exception", "BaseException"}
CallbackBehaviours ==
    {[on_success |-> a, on_failure |-> b] :
        a \in ExceptionClasses \cup {"none"}, b \in ExceptionClasses \cup {"none"}}

\* The except block of lines 198-234 that catches an exception of class
\* raised coming out of the try body, by its error_origin; none for the
\* classes that are no RequestException.
HandlerOf(raised) ==
    IF raised = "HTTPError" THEN {"HTTPError_Block"}
    ELSE IF raised = "Timeout" THEN {"Timeout_Block"}
    ELSE IF raised = "RequestException" THEN {"RequestException_Block"}
    ELSE {}

\* The arguments of the callback in the block that caught an exception the
\* callback raised: e.response is None, so the status code is None. outcome
\* is what the POST ended with.
ReRaisedArgs(block, outcome) ==
    [success |-> FALSE, error_origin |-> block,
     status_code |-> {}, payload_status_code |-> {},
     payload_text |-> IF block = "HTTPError_Block" THEN NoResponseText ELSE "",
     outcome |-> outcome]

\* Where the worker stands after an exception of class raised left the inner
\* try statement: queue.Empty continues the loop (line 240), another
\* Exception is logged and slept on (lines 242-244), anything else ends the
\* thread.
AfterPropagated(raised) ==
    IF raised = "Empty" THEN "while"
    ELSE IF raised = "BaseException" THEN "exited"
    ELSE "sleep"

\* _worker, lines 184-244, when the POST has ended and the callback raises.
\* An exception the callback raises in the try body (success True) is caught
\* by the except block of its class, if there is one, which invokes the
\* callback again with success False; an exception raised inside an except
\* block, or of no requests class, leaves the try statement through finally.
worker_post_done_callback_raises(t, outcome, behaviour) ==
    /\ threads[t].pc = "post"
    /\ threads[t].request_item.callback
    /\ outcome.kind # "Exception"
    /\ LET request_item == threads[t].request_item
           first == CallbackArgs(outcome)
           raised == IF first.success THEN behaviour.on_success
                     ELSE behaviour.on_failure
           caught == IF first.success THEN HandlerOf(raised) ELSE {}
           second == {Invocation(request_item.id, ReRaisedArgs(block, outcome), t) :
                         block \in caught}
       IN  /\ raised # "none"
           /\ posts' = [i \in 1..Len(posts) |->
                          IF posts[i].id = request_item.id
                          THEN [posts[i] EXCEPT !.outcome = "callback_raised"]
                          ELSE posts[i]]
           /\ callbacks' =
                IF caught = {}
                THEN Append(callbacks, Invocation(request_item.id, first, t))
                ELSE Append(Append(callbacks, Invocation(request_item.id, first, t)),
                            CHOOSE invocation \in second : TRUE)
           /\ threads' = [threads EXCEPT ![t].pc =
                             IF caught = {} THEN AfterPropagated(raised)
                             ELSE IF behaviour.on_failure = "none" THEN "while"
                             ELSE AfterPropagated(behaviour.on_failure)]
    /\ UNCHANGED <<request_queue, shutdown_event, worker_thread, stop_pc, calls,
                   start_calls, stop_calls>>
    /\ UNCHANGED <<get_vars, lookup_vars, validator_vars, handler_vars>>

\* The dispatcher with callbacks that may raise.
CallbackNext ==
    \/ Next
    \/ \E t \in 1..Len(threads), outcome \in PostOutcomes,
          behaviour \in CallbackBehaviours :
          worker_post_done_callback_raises(t, outcome, behaviour)
CallbackSpec == Init /\ [][CallbackNext]_vars

\* The plugin as sal/sal.py builds it from the modules of sal, or as load.py
\* builds it from those of core. SystemLookup(http_client, settings): the
\* client handed in, which every query tests for None, is an HttpClient or
\* None.
LookupInit ==
    /\ request_queue = <<>>
    /\ shutdown_event = FALSE
    /\ worker_thread = 0
    /\ threads = <<>>
    /\ stop_pc = "idle"
    /\ calls = <<>>
    /\ posts = <<>>
    /\ callbacks = <<>>
    /\ start_calls = 0
    /\ stop_calls = 0
    /\ gets = <<>>
    /\ package \in Packages
    /\ settings = {[system_lookup_enabled |-> TRUE]}
    /\ http_client \in BOOLEAN
    /\ discovery_cache = <<>>
    /\ lookup = NoLookup
    /\ other_lookup = NoLookup
    /\ validation = NoValidation
    /\ lookups = <<>>
    /\ data_handler = NewDataHandler
    /\ preferences = DefaultPreferences
    /\ entries = <<>>

LookupSpec == LookupInit /\ [][LookupNext]_vars

\* The lookup of the plugin sal/sal.py has built, called from two threads;
\* each GET times out or is answered with 200 and an object that has a name
\* or a system key.
ConcurrentOutcomes ==
    {outcome \in ProviderOutcomes :
        \/ outcome.kind = "Timeout"
        \/ /\ outcome.kind = "response" /\ outcome.status_code = 200
           /\ outcome.body \in {"dict_name", "dict_system"}}
ConcurrentLookupNext ==
    \/ \E system_name \in SystemNames, system_address \in SystemAddresses,
          original_was_discovered \in JournalHints :
          check_system_discovery_status(system_name, system_address,
                                        original_was_discovered)
    \/ \E outcome \in ConcurrentOutcomes : check_edsm(outcome)
    \/ \E outcome \in ConcurrentOutcomes : check_spansh(outcome)
    \/ \E outcome \in ConcurrentOutcomes : check_edastro(outcome)
    \/ thread_switch
ConcurrentLookupSpec == Init /\ [][ConcurrentLookupNext]_vars

\* ------------------------------------------------------------ DataHandler
\* JournalEvents.__members__
JournalEvents == {"FSDJump", "Scan", "SAASignalsFound", "CarrierJump", "Location"}

\* The events of the entries EDMC delivers: the relevant ones and another.
EntryEvents == JournalEvents \cup {"Docked"}

\* A journal entry: its event, StarSystem, SystemAddress (0 when absent),
\* WasDiscovered ({} when absent) and, for a Scan, whether it has a StarType,
\* a PlanetClass or a ring among its parents.
JournalEntries ==
    {entry \in [event : EntryEvents, StarSystem : SystemNames \ {""},
                SystemAddress : SystemAddresses, WasDiscovered : JournalHints,
                body : BOOLEAN] :
        entry.event # "Scan" => entry.body}

\* The arguments with which the payload builder of the entry's event calls
\* _get_system_discovery_status; none for an event without a builder and for
\* a Scan that _build_scan_payload gives up on. {} stands for None.
BuilderCall(entry) ==
    IF entry.event = "FSDJump" \/ (entry.event = "Scan" /\ entry.body)
    THEN {[event_system_address |-> entry.SystemAddress,
           event_system_name |-> {entry.StarSystem},
           event_original_was_discovered |-> entry.WasDiscovered]}
    ELSE IF entry.event = "CarrierJump"
    THEN {[event_system_address |-> entry.SystemAddress,
           event_system_name |-> {entry.StarSystem},
           event_original_was_discovered |-> {}]}
    ELSE IF entry.event = "SAASignalsFound"
    THEN {[event_system_address |-> entry.SystemAddress,
           event_system_name |-> {},
           event_original_was_discovered |-> {}]}
    ELSE {}

\* The lookup services in the order check_system_discovery_status asks them.
ProviderNames == <<"EDSM", "Spansh", "Edastro">>

\* One query of check_system_discovery_status, by the name of its service.
ProviderQuery(provider, system_name, system_address, outcome) ==
    IF provider = "EDSM" THEN query_edsm(system_name, outcome)
    ELSE IF provider = "Spansh" THEN query_spansh(system_address, outcome)
    ELSE query_edastro(system_address, outcome)

\* The three queries of one check_system_discovery_status call, by service.
ProviderQueries(system_name, system_address, outcome) ==
    [provider \in {ProviderNames[n] : n \in DOMAIN ProviderNames} |->
        ProviderQuery(provider, system_name, system_address, outcome)]

\* discovery_sources after the three queries, lines 187-199.
Confirmed(queries) == SelectSeq(ProviderNames, LAMBDA provider : queries[provider].found)

\* What the log keeps of a call that missed the cache, lines 187-212.
MissReturned(system_name, system_address, original_was_discovered, queries) ==
    LookupReturned(system_name, system_address, original_was_discovered,
                   TRUE, FALSE,
                   SelectSeq(ProviderNames, LAMBDA provider : queries[provider].get),
                   Confirmed(queries),
                   DiscoveryResult(
                       [discovery_sources |-> Confirmed(queries),
                        original_was_discovered |-> original_was_discovered]))

\* check_system_discovery_status, lines 171-212, as one call: what the log
\* keeps of it, given what the GETs of the call come back with.
ResolverCall(system_name, system_address, original_was_discovered, outcome) ==
    IF ~LookupEnabled
    THEN LookupReturned(system_name, system_address, original_was_discovered,
                        FALSE, FALSE, <<>>, <<>>,
                        JournalResult(original_was_discovered))
    ELSE IF cache_key(system_name, system_address) \in DOMAIN discovery_cache
    THEN LookupReturned(system_name, system_address, original_was_discovered,
                        TRUE, TRUE, <<>>, <<>>,
                        discovery_cache[cache_key(system_name, system_address)])
    ELSE MissReturned(system_name, system_address, original_was_discovered,
                      ProviderQueries(system_name, system_address, outcome))

\* self._discovery_cache after the call, line 215.
CacheAfter(call) ==
    IF call.enabled /\ ~call.hit
    THEN [k \in DOMAIN discovery_cache
                   \cup {cache_key(call.system_name, call.system_address)} |->
            IF k = cache_key(call.system_name, call.system_address)
            THEN call.result ELSE discovery_cache[k]]
    ELSE discovery_cache

\* "event_system_name if event_system_name else ''"
NameForLookup(event_system_name) ==
    IF event_system_name = {} THEN "" ELSE CHOOSE name \in event_system_name : TRUE

\* The last-value cache of the DataHandler, {} for None.
LastValue(handler) ==
    [system_address |-> handler.cached_system_address,
     system_name |-> handler.cached_system_name,
     was_discovered |-> handler.cached_was_discovered,
     discovery_source |-> handler.cached_discovery_source]

\* _get_system_discovery_status was not called, or returned without a call
\* of the resolver, lines 100-102: no resolver call, the tuples returned and
\* the last-value cache as it was.
NoResolverCall(returned) ==
    [resolver_calls |-> <<>>, returned |-> returned,
     last_value |-> LastValue(data_handler)]

\* Lines 116-138: the resolver was called; its tuple is stored in the
\* last-value cache and returned.
AfterResolverCall(args, call) ==
    [resolver_calls |-> <<call>>,
     returned |-> {call.result},
     last_value |-> [system_address |-> {args.event_system_address},
                     system_name |-> args.event_system_name,
                     was_discovered |-> {call.result.is_discovered},
                     discovery_source |-> {call.result.source_info}]]

\* _get_system_discovery_status answering from the last-value cache when
\* the address of the event is the cached one.
get_system_discovery_status_from_last_value(args, outcome) ==
    IF ~data_handler.system_lookup
    THEN NoResolverCall({[is_discovered |-> args.event_original_was_discovered = {TRUE}, source_info |-> "journal_no_lookup"]})
    ELSE IF /\ {args.event_system_address} = data_handler.cached_system_address
            /\ data_handler.cached_was_discovered # {}
            /\ data_handler.cached_discovery_source # {}
    THEN NoResolverCall({[is_discovered |-> data_handler.cached_was_discovered = {TRUE}, source_info |-> source] : source \in data_handler.cached_discovery_source})
    ELSE AfterResolverCall(args,
            ResolverCall(NameForLookup(args.event_system_name),
                         args.event_system_address,
                         args.event_original_was_discovered, outcome))

\* DataHandler._get_system_discovery_status, lines 96-138: the calls of the
\* resolver it makes, the tuple it returns and the last-value cache it
\* leaves. The test of lines 105-111 only logs.
get_system_discovery_status(args, outcome) ==
    IF ~data_handler.system_lookup
    THEN NoResolverCall({[is_discovered |-> args.event_original_was_discovered = {TRUE}, source_info |-> "journal_no_lookup"]})
    ELSE AfterResolverCall(args,
            ResolverCall(NameForLookup(args.event_system_name),
                         args.event_system_address,
                         args.event_original_was_discovered, outcome))

\* str.rstrip('/')
RECURSIVE RStripSlash(_)
RStripSlash(chars) ==
    IF chars # <<>> /\ chars[Len(chars)] = "/"
    THEN RStripSlash(SubSeq(chars, 1, Len(chars) - 1))
    ELSE chars

\* "/" followed by endpoint_suffix.lstrip('/')
EndpointSuffix ==
    <<"/","e","x","p","l","o","r","a","t","i","o","n","/","e","v","e","n","t","s">>

\* full_api_url, line 82
FullApiUrl(api_url) == StrUrl(RStripSlash(api_url) \o EndpointSuffix)

\* What _is_url_valid says of the full URL of each API URL.
FullApiUrlValid == [api_url \in ApiUrls |-> is_url_valid(FullApiUrl(api_url))]

\* Lines 35-69 of process_journal_entry: what the payload builder of the
\* entry did about the discovery status; no call of
\* _get_system_discovery_status when the handler is cleaned up, the plugin is
\* disabled, the event is not relevant or its builder makes none.
BuildPayload(entry, outcome) ==
    IF /\ data_handler.settings /\ data_handler.http_client
       /\ preferences.plugin_enabled
       /\ entry.event \in JournalEvents
       /\ BuilderCall(entry) # {}
    THEN {get_system_discovery_status(args, outcome) : args \in BuilderCall(entry)}
    ELSE {NoResolverCall({})}

\* What the log keeps of a process_journal_entry call: the event of the
\* entry, the tuple _get_system_discovery_status returned (none if it was not
\* called) and whether send_json_post_request was called.
Processed(entry, returned, sent) ==
    [event |-> entry.event, returned |-> returned, sent |-> sent]

\* The effects of process_journal_entry for a payload builder that ended as
\* status says, sending the payload if sent.
ProcessEffects(entry, status, sent) ==
    /\ data_handler' =
         [data_handler EXCEPT
            !.cached_system_address = status.last_value.system_address,
            !.cached_system_name = status.last_value.system_name,
            !.cached_was_discovered = status.last_value.was_discovered,
            !.cached_discovery_source = status.last_value.discovery_source]
    /\ lookups' = lookups \o status.resolver_calls
    /\ discovery_cache' =
         IF status.resolver_calls = <<>> THEN discovery_cache
         ELSE CacheAfter(status.resolver_calls[1])
    /\ calls' =
         IF sent
         THEN Append(calls, [url |-> FullApiUrl(preferences.api_url), callback |-> TRUE])
         ELSE calls
    /\ request_queue' =
         IF sent /\ FullApiUrlValid[preferences.api_url]
         THEN Append(request_queue,
                     SalRequest(Len(calls) + 1, FullApiUrl(preferences.api_url), TRUE))
         ELSE request_queue
    /\ callbacks' =
         IF sent /\ ~FullApiUrlValid[preferences.api_url]
         THEN Append(callbacks, Invocation(Len(calls) + 1, UrlValidationArgs, 0))
         ELSE callbacks
    /\ entries' = Append(entries, Processed(entry, status.returned, sent))

\* process_journal_entry posting the payload without the test of api_url.
process_journal_entry_no_url_test(entry, outcome) ==
    /\ Len(entries) < MaxEntries
    /\ \E status \in BuildPayload(entry, outcome) :
          ProcessEffects(entry, status, status.returned # {})
    /\ UNCHANGED <<shutdown_event, worker_thread, threads, stop_pc, posts,
                   start_calls, stop_calls>>
    /\ UNCHANGED <<package, settings, http_client, lookup, other_lookup>>
    /\ UNCHANGED <<get_vars, validator_vars, preferences>>

\* DataHandler.process_journal_entry, lines 33-92, with the builder of the
\* event, the _get_system_discovery_status call of the builder and the
\* send_json_post_request call of lines 84-89: the payload is sent when one
\* was built and api_url is not empty.
process_journal_entry(entry, outcome) ==
    /\ Len(entries) < MaxEntries
    /\ \E status \in BuildPayload(entry, outcome) :
          ProcessEffects(entry, status,
                         status.returned # {} /\ preferences.api_url # NoApiUrl)
    /\ UNCHANGED <<shutdown_event, worker_thread, threads, stop_pc, posts,
                   start_calls, stop_calls>>
    /\ UNCHANGED <<package, settings, http_client, lookup, other_lookup>>
    /\ UNCHANGED <<get_vars, validator_vars, preferences>>

\* DataHandler.cleanup, lines 408-419, called by plugin_stop
data_handler_cleanup ==
    /\ data_handler' =
         [settings |-> FALSE, http_client |-> FALSE, system_lookup |-> FALSE,
          cached_system_address |-> {}, cached_system_name |-> {},
          cached_was_discovered |-> {}, cached_discovery_source |-> {}]
    /\ UNCHANGED <<client_vars, get_vars, lookup_vars, validator_vars>>
    /\ UNCHANGED <<preferences, entries>>

\* The GETs of one lookup of the DataHandler: all time out, or all are
\* answered with 200 and an object that has a system key.
HandlerOutcomes ==
    {outcome \in ConcurrentOutcomes :
        outcome.kind = "Timeout" \/ outcome.body = "dict_system"}

\* The DataHandler of the plugin sal/sal.py has built, on the thread that
\* delivers the journal entries and the preferences and stops the plugin.
\* The preferences leave the lookup switched on.
HandlerNext ==
    \/ \E entry \in JournalEntries, outcome \in HandlerOutcomes :
          process_journal_entry(entry, outcome)
    \/ \E plugin_enabled \in BOOLEAN, api_url \in ApiUrls :
          refresh_settings(plugin_enabled, api_url, LookupEnabled)
    \/ data_handler_cleanup
HandlerSpec == Init /\ [][HandlerNext]_vars

\* ------------------------------------------------------------ properties
\* The URLs of PostUrls that _is_url_valid accepts.
ValidPostUrls == {url \in PostUrls : is_url_valid(url)}
\* The requests whose URL passed the validation, by id (= call order).
ValidIds == {id \in 1..Len(calls) : calls[id].url \in ValidPostUrls}
\* The invocations of the callback of request id.
Invocations(id) == {k \in 1..Len(callbacks) : callbacks[k].id = id}
\* The invocations made by worker threads, in invocation order.
WorkerCallbacks == SelectSeq(callbacks, LAMBDA c : c.thread # 0)
PostedIds == {posts[i].id : i \in 1..Len(posts)}
InFlight == {t \in 1..Len(threads) : threads[t].pc = "post"}
Running == worker_thread # 0 /\ is_alive(worker_thread)
StrictlyIncreasing(ids) ==
    \A i, j \in 1..Len(ids) : i < j => ids[i].id < ids[j].id

\* C1: as long as only send_json_post_request is called on the started
\* client (no stop()), the POSTs are issued and the callbacks invoked in
\* the order the requests were queued, and at most one POST is in flight.
C1_FifoOneAtATime ==
    stop_calls = 0 =>
        /\ Cardinality(InFlight) <= 1
        /\ StrictlyIncreasing(posts)
        /\ StrictlyIncreasing(WorkerCallbacks)
        /\ \A id \in ValidIds : id \in PostedIds =>
               \A earlier \in ValidIds : earlier < id => earlier \in PostedIds
        /\ \A i \in 1..Len(WorkerCallbacks) :
               WorkerCallbacks[i].id \in PostedIds

C1_Witness ==
    /\ stop_calls = 0
    /\ Len(posts) = 2
    /\ Len(WorkerCallbacks) = 2
    /\ WorkerCallbacks[1].id = 1 /\ ~WorkerCallbacks[1].success
    /\ WorkerCallbacks[2].id = 2

\* C2: every POST a worker issued and whose outcome the worker handles
\* (success, HTTP error, timeout, other request exception) gives exactly one
\* invocation of the request's callback, by that worker, and no request's
\* callback is ever invoked more than once.
C2_ExactlyOneCallback ==
    /\ \A id \in 1..Len(calls) : Cardinality(Invocations(id)) <= 1
    /\ \A i \in 1..Len(posts) :
         Cardinality({k \in Invocations(posts[i].id) :
                         callbacks[k].thread = posts[i].thread})
           = IF posts[i].outcome = "handled" /\ calls[posts[i].id].callback
             THEN 1 ELSE 0

C2_Witness ==
    /\ start_calls = 2 /\ stop_calls = 1
    /\ Len(posts) = 2
    /\ \A i \in 1..2 : posts[i].outcome = "handled"
    /\ posts[1].thread # posts[2].thread
    /\ Len(WorkerCallbacks) = 2
    /\ WorkerCallbacks[1].error_origin # WorkerCallbacks[2].error_origin

\* C6: send_json_post_request with an invalid URL and a callback invokes the
\* callback once, on the calling thread and before it returns, with
\* success False, error_origin URLValidation and status None; the queue is
\* unchanged, and the request never reaches the queue or the network.
C6_InvalidUrlStep ==
    Len(calls') = Len(calls) + 1
    /\ calls'[Len(calls')].url \notin ValidPostUrls
    /\ calls'[Len(calls')].callback
    => /\ request_queue' = request_queue
       /\ posts' = posts
       /\ callbacks' = Append(callbacks,
                          [id |-> Len(calls'), success |-> FALSE,
                           error_origin |-> "URLValidation",
                           status_code |-> {}, payload_status_code |-> {},
                           payload_text |-> "",
                           outcome |-> [kind |-> "InvalidUrl", status_code |-> 0],
                           thread |-> 0])

C6_InvalidUrlState ==
    \A id \in (1..Len(calls)) \ ValidIds :
        /\ id \notin PostedIds
        /\ \A i \in 1..Len(request_queue) : request_queue[i].id # id
        /\ \A t \in 1..Len(threads) : threads[t].request_item.id # id
        /\ Cardinality(Invocations(id)) = IF calls[id].callback THEN 1 ELSE 0

\* C6: every step obeys C6_InvalidUrlStep and every state C6_InvalidUrlState.
C6_InvalidUrlCallback == [][C6_InvalidUrlStep]_vars /\ []C6_InvalidUrlState

C6_Witness ==
    \E id \in (1..Len(calls)) \ ValidIds :
        /\ calls[id].callback
        /\ Cardinality(Invocations(id)) = 1
        /\ request_queue # <<>>

\* C7: a worker that has exited has finished every POST it issued, and the
\* callback of each was invoked once by it before it exited; a request no
\* worker sent has no invocation, and none has two.
C7_InFlightCompletes ==
    /\ \A i \in 1..Len(posts) :
         ~is_alive(posts[i].thread) =>
            /\ posts[i].outcome # "pending"
            /\ posts[i].outcome = "handled" /\ calls[posts[i].id].callback
               => Cardinality({k \in Invocations(posts[i].id) :
                                 callbacks[k].thread = posts[i].thread}) = 1
    /\ \A id \in ValidIds : id \notin PostedIds => Invocations(id) = {}
    /\ \A id \in 1..Len(calls) : Cardinality(Invocations(id)) <= 1

C7_Witness ==
    \E t \in 1..Len(threads) :
        /\ threads[t].stop_seen = "post"
        /\ ~is_alive(t)
        /\ \E i \in 1..Len(posts) :
              /\ posts[i].thread = t
              /\ Cardinality(Invocations(posts[i].id)) = 1
        /\ \E id \in ValidIds :
              /\ calls[id].callback
              /\ id \notin PostedIds
              /\ Invocations(id) = {}

\* C9: a call of start() while the worker is running spawns no thread and
\* leaves the queue, the shutdown event and the worker unchanged.
C9_StartStep ==
    start_calls' = start_calls + 1 /\ Running
    => UNCHANGED <<request_queue, shutdown_event, worker_thread, threads,
                   posts, callbacks>>

\* C9: every step obeys C9_StartStep: start() on a running client is a no-op.
C9_StartIdempotent == [][C9_StartStep]_vars

C9_Witness ==
    /\ start_calls = 2
    /\ stop_calls = 0
    /\ Len(threads) = 1
    /\ Running

\* C10: a step of stop() on a client whose worker is None or dead puts no
\* sentinel, invokes no callback and ends with the worker None and the
\* shutdown event set; on a client already stopped it changes nothing.
C10_StopStep ==
    stop_pc \in {"idle", "check"} /\ stop_pc' # stop_pc
    /\ (worker_thread = 0 \/ ~is_alive(worker_thread))
    => /\ stop_pc' # "put"
       /\ UNCHANGED <<request_queue, posts, callbacks>>
       /\ \A t \in 1..Len(threads) : threads'[t].pc = threads[t].pc
       /\ shutdown_event'
       /\ stop_pc' = "idle" => worker_thread' = 0
       /\ shutdown_event /\ worker_thread = 0
          => UNCHANGED <<shutdown_event, worker_thread, threads>>

\* C10: every step obeys C10_StopStep: stop() on a stopped client is a no-op.
C10_StopIdempotent == [][C10_StopStep]_vars

C10_Witness ==
    /\ stop_calls = 2
    /\ start_calls = 0
    /\ stop_pc = "idle"
    /\ worker_thread = 0
    /\ shutdown_event
    /\ request_queue # <<>>
    /\ \A i \in 1..Len(request_queue) : request_queue[i] # NoneItem

\* C3: while the client is running and stop() has never been called, the
\* first n requests (those with a valid URL and a callback) eventually have
\* each had its callback invoked exactly once, with success True, by the
\* worker and in the order they were queued, unless some POST failed.
Delivered(n) ==
    /\ \A id \in ValidIds :
         id <= n /\ calls[id].callback =>
            /\ Cardinality(Invocations(id)) = 1
            /\ \A k \in Invocations(id) :
                  callbacks[k].success /\ callbacks[k].thread # 0
    /\ StrictlyIncreasing(WorkerCallbacks)
SomePostFailed ==
    \/ \E i \in 1..Len(posts) : posts[i].outcome = "unhandled"
    \/ \E k \in 1..Len(callbacks) : callbacks[k].thread # 0 /\ ~callbacks[k].success

C3_AllDeliveredInOrder ==
    \A n \in 1..MaxRequests :
        (Len(calls) >= n /\ Running /\ stop_calls = 0)
            ~> (Delivered(n) \/ SomePostFailed \/ stop_calls > 0)

C3_Witness ==
    /\ stop_calls = 0
    /\ Len(calls) = 2
    /\ ValidIds = {1, 2}
    /\ Len(callbacks) = 2
    /\ \A k \in 1..2 : callbacks[k].id = k /\ callbacks[k].success

\* C4: a worker has left its loop only if stop() was called on it; while the
\* shutdown event is clear and stop() was not called on the current worker,
\* that worker is alive.
C4_WorkerExitsOnlyOnStop ==
    /\ \A t \in 1..Len(threads) :
         ~is_alive(t) => threads[t].stop_seen # "none"
    /\ (~shutdown_event /\ worker_thread # 0
        /\ threads[worker_thread].stop_seen = "none") => is_alive(worker_thread)

\* C5: at most one worker thread is taking items from the queue.
C5_SingleConsumer ==
    Cardinality({t \in 1..Len(threads) : threads[t].pc = "get"}) <= 1

\* C8: a worker on which stop() has been called sends no further request:
\* it issues no POST after the call.
C8_StoppedWorkerStep ==
    \A t \in 1..Len(threads) :
        threads[t].stop_seen # "none" /\ threads[t].pc # "post"
            => threads'[t].pc # "post"

\* C8: no step lets a worker that stop() was called on issue a POST.
C8_StoppedWorkerSendsNoMore == [][C8_StoppedWorkerStep]_vars

\* C11: an exception of no requests class raised while a worker handles a
\* request does not end the worker and reaches no caller: the step that
\* raises it leaves the worker alive in its cooldown, invokes no callback
\* and touches neither the queue nor any other thread; the cooldown ends at
\* the loop test, and from there, unless stop() was called, the worker goes
\* on to take the next request from the queue.
C11_UnexpectedExceptionStep ==
    \A t \in 1..Len(threads) :
        /\ (threads[t].pc = "post"
            /\ \E i \in 1..Len(posts) :
                  /\ posts[i].thread = t
                  /\ posts[i].outcome = "pending"
                  /\ posts'[i].outcome = "unhandled")
           => /\ threads'[t].pc = "sleep"
              /\ UNCHANGED <<request_queue, callbacks, worker_thread,
                             shutdown_event, stop_pc>>
              /\ \A u \in 1..Len(threads) : u # t => threads'[u] = threads[u]
              /\ Len(threads') = Len(threads)
        /\ (threads[t].pc = "sleep" /\ threads'[t].pc # "sleep")
           => threads'[t].pc = "while"
        /\ (threads[t].pc = "while" /\ threads'[t].pc # "while"
            /\ ~shutdown_event)
           => threads'[t].pc = "get"

\* C11: every step obeys C11_UnexpectedExceptionStep.
C11_UnexpectedExceptionCaught == [][C11_UnexpectedExceptionStep]_vars

C11_Witness ==
    /\ Len(posts) = 2
    /\ posts[1].outcome = "unhandled"
    /\ posts[2].thread = posts[1].thread
    /\ posts[2].outcome = "handled"
    /\ is_alive(posts[1].thread)
    /\ stop_calls = 0

\* A status code outside 2xx.
NonSuccessStatus(status_code) == status_code < 200 \/ status_code >= 300
\* What a request ended with is a failure: an exception was raised, by
\* requests or by raise_for_status.
Failed(outcome) ==
    outcome.kind # "response" \/ RaisesForStatus(outcome.status_code)

C13_HttpErrorStatus ==
    \A k \in 1..Len(callbacks) :
        LET c == callbacks[k]
        IN  c.outcome.kind = "response" /\ NonSuccessStatus(c.outcome.status_code)
            => /\ ~c.success
               /\ c.status_code = {c.outcome.status_code}
               /\ c.payload_status_code = {c.outcome.status_code}
               /\ c.payload_text = ResponseText

\* C14: send_get_request_sync never raises, and whenever requests.get was
\* called and did not end with a response whose status raise_for_status
\* accepts, the call returns None as data and an error message that is not
\* None; for a timeout it returns (None, None, "Request timed out").
C14_SyncGetNeverRaises ==
    \A i \in 1..Len(gets) :
        LET g == gets[i]
        IN  /\ ~g.result.raised
            /\ (g.result.network /\ Failed(g.outcome))
               => g.result.data = {} /\ g.result.error_message # {}
            /\ g.outcome.kind = "Timeout"
               => /\ g.result.data = {}
                  /\ g.result.status_code = {}
                  /\ g.result.error_message = {"Request timed out"}

C14_Witness ==
    /\ Len(gets) = 2
    /\ gets[1].outcome.kind = "Exception"
    /\ gets[1].result.error_message # {}
    /\ gets[2].outcome.kind = "Timeout"

\* C15: a step of send_get_request_sync leaves the queue, the worker and the
\* shutdown event (every variable of the client) unchanged.
C15_SyncGetStep ==
    Len(gets') > Len(gets) => UNCHANGED client_vars

C15_SyncGetState ==
    /\ \A i \in 1..Len(gets) :
         gets[i].url \notin ValidPostUrls
            => /\ ~gets[i].result.network
               /\ ~gets[i].result.raised
               /\ gets[i].result.data = {}
               /\ gets[i].result.status_code = {}
               /\ gets[i].result.error_message # {}
    /\ \A i, j \in 1..Len(gets) :
         gets[i].url = gets[j].url /\ gets[i].outcome = gets[j].outcome
            => gets[i].result = gets[j].result

\* C15: send_get_request_sync with a URL _is_url_valid rejects returns
\* (None, None, an error message) without calling requests.get; every call
\* leaves the client unchanged (C15_SyncGetStep), and calls with the same URL
\* and the same outcome of requests.get return the same, whether the worker
\* was running or not.
C15_SyncGetFrame == [][C15_SyncGetStep]_vars /\ []C15_SyncGetState

C15_Witness ==
    /\ Len(gets) = 2
    /\ gets[1].url \notin ValidPostUrls
    /\ gets[1].running
    /\ gets[2].url = gets[1].url
    /\ ~gets[2].running
    /\ stop_calls = 1

\* C16: a step of send_json_post_request with a URL _is_url_valid accepts
\* appends one SalRequest, the one just handed in, to the tail of the queue
\* and invokes no callback.
C16_EnqueueStep ==
    Len(calls') = Len(calls) + 1
    /\ calls'[Len(calls')].url \in ValidPostUrls
    => /\ request_queue' =
            Append(request_queue,
                   SalRequest(Len(calls'), calls'[Len(calls')].url,
                              calls'[Len(calls')].callback))
       /\ UNCHANGED <<callbacks, posts, threads, worker_thread, shutdown_event>>

C16_WorkerInvokes ==
    \A k \in 1..Len(callbacks) :
        callbacks[k].id \in ValidIds
           => /\ callbacks[k].thread # 0
              /\ \E i \in 1..Len(posts) :
                    /\ posts[i].id = callbacks[k].id
                    /\ posts[i].thread = callbacks[k].thread

\* C16: every step obeys C16_EnqueueStep, and the callback of a request with
\* a valid URL is only ever invoked by a worker thread, the one that sent it.
C16_EnqueueOnly == [][C16_EnqueueStep]_vars /\ []C16_WorkerInvokes

C16_Witness ==
    /\ Len(request_queue) = 2
    /\ request_queue[1].id = 1 /\ request_queue[2].id = 2
    /\ calls[1].callback /\ calls[2].callback
    /\ Running
    /\ callbacks = <<>>

\* C17: no request is sent twice: the POSTs the workers issued are for
\* distinct requests, each with a URL that was accepted, and a request that
\* was sent is neither back in the queue nor held by a second worker.
C17_AtMostOnePost ==
    /\ \A i, j \in 1..Len(posts) : posts[i].id = posts[j].id => i = j
    /\ \A i \in 1..Len(posts) :
         /\ posts[i].id \in ValidIds
         /\ \A q \in 1..Len(request_queue) : request_queue[q].id # posts[i].id
         /\ \A t \in 1..Len(threads) :
               threads[t].pc = "post" /\ threads[t].request_item.id = posts[i].id
                  => t = posts[i].thread

C17_Witness ==
    /\ start_calls = 2 /\ stop_calls = 1
    /\ Len(posts) = 2
    /\ posts[1].outcome = "unhandled"
    /\ posts[2].thread # posts[1].thread
    /\ \E k \in 1..Len(callbacks) : callbacks[k].id = 2 /\ ~callbacks[k].success

\* The cache key of a call the log holds.
KeyOf(call) == cache_key(call.system_name, call.system_address)

\* C18: a call of check_system_discovery_status made while the lookup is
\* disabled returns (original_was_discovered, "journal"), with False for a
\* None, sends no GET, starts no query and leaves the cache unchanged.
C18_DisabledStep ==
    Len(lookups') = Len(lookups) + 1 /\ ~LookupEnabled
    => LET call == lookups'[Len(lookups')]
       IN  /\ call.result.source_info = "journal"
           /\ call.result.is_discovered = (call.original_was_discovered = {TRUE})
           /\ call.queried = <<>>
           /\ UNCHANGED <<discovery_cache, lookup, gets>>

\* C18: every step obeys C18_DisabledStep.
C18_DisabledReturnsJournal == [][C18_DisabledStep]_vars

C18_Witness ==
    /\ Len(lookups) = 2
    /\ lookups[1].enabled /\ ~lookups[2].enabled
    /\ KeyOf(lookups[2]) = KeyOf(lookups[1])
    /\ KeyOf(lookups[2]) \in DOMAIN discovery_cache
    /\ discovery_cache[KeyOf(lookups[2])].is_discovered
    /\ lookups[2].original_was_discovered = {}
    /\ ~lookups[2].result.is_discovered

\* C19: the call that returns from an enabled lookup after querying has
\* written its tuple to the cache under its key.
C19_CacheWriteStep ==
    Len(lookups') = Len(lookups) + 1 /\ lookup.pc # "idle"
    => LET call == lookups'[Len(lookups')]
       IN  /\ KeyOf(call) \in DOMAIN discovery_cache'
           /\ discovery_cache'[KeyOf(call)] = call.result

C19_OneGetPerProvider ==
    \A j \in 1..Len(lookups) :
        /\ \A m, n \in 1..Len(lookups[j].queried) :
              lookups[j].queried[m] = lookups[j].queried[n] => m = n
        /\ \A i \in 1..(j - 1) :
              (lookups[i].enabled /\ lookups[j].enabled
               /\ KeyOf(lookups[i]) = KeyOf(lookups[j]))
              => /\ lookups[j].queried = <<>>
                 /\ lookups[j].result = lookups[i].result

\* C19: of two calls of an enabled lookup with the same system name and
\* address the first sends at most one GET to each service and writes the
\* cache before it returns (C19_CacheWriteStep), and the second sends none
\* and returns the tuple of the first.
C19_SecondCallCached == [][C19_CacheWriteStep]_vars /\ []C19_OneGetPerProvider

C19_Witness ==
    /\ Len(lookups) = 2
    /\ lookups[1].enabled /\ lookups[2].enabled
    /\ KeyOf(lookups[1]) = KeyOf(lookups[2])
    /\ lookups[1].queried = <<"EDSM", "Spansh", "Edastro">>
    /\ lookups[2].queried = <<>>
    /\ lookups[1].original_was_discovered # lookups[2].original_was_discovered

\* C20 as stated: an entry of the cache is never changed and never removed.
C20_EntryKeptStep ==
    \A key \in DOMAIN discovery_cache :
        /\ key \in DOMAIN discovery_cache'
        /\ discovery_cache'[key] = discovery_cache[key]

C20_EntryKeptUntilCleanupStep ==
    \/ C20_EntryKeptStep
    \/ /\ lookup.pc = "idle"
       /\ discovery_cache' = <<>>
       /\ settings' = {}
       /\ ~http_client'

C21_CacheHitStep ==
    Len(lookups') = Len(lookups) + 1 /\ lookup.pc = "idle" /\ LookupEnabled
    /\ KeyOf(lookups'[Len(lookups')]) \in DOMAIN discovery_cache
    => LET call == lookups'[Len(lookups')]
       IN  /\ call.result = discovery_cache[KeyOf(call)]
           /\ call.queried = <<>>
           /\ UNCHANGED <<discovery_cache, lookup>>

\* C21: every step obeys C21_CacheHitStep.
C21_CacheHitReturnsCached == [][C21_CacheHitStep]_vars

C21_Witness ==
    /\ Len(lookups) = 2
    /\ lookups[1].queried = <<"EDSM", "Spansh", "Edastro">>
    /\ lookups[1].result.source_info = "Not found in any source"
    /\ lookups[2].hit
    /\ lookups[2].original_was_discovered = {TRUE}
    /\ lookups[2].result = lookups[1].result


\* The lookup services in the order check_system_discovery_status queries them.
Providers == <<"EDSM", "Spansh", "Edastro">>
\* The services whose query returned True in a logged call, in query order.
Confirming(call) ==
    SelectSeq(Providers, LAMBDA p : \E i \in DOMAIN call.found : call.found[i] = p)
\* The logged calls that missed the cache and ran the queries.
Misses == {i \in DOMAIN lookups : lookups[i].enabled /\ ~lookups[i].hit}

\* C22 as stated: on a miss with at least one service confirming, the call
\* returns True whatever the journal said, and the source string is exactly
\* the comma-joined names of the confirming services in query order.
C22_SourceIsProviderNames ==
    \A i \in Misses :
        lookups[i].found # <<>>
        => lookups[i].result = [is_discovered |-> TRUE,
                                source_info |-> Join(Confirming(lookups[i]))]

\* C22 amended: on a miss with at least one service confirming, the call
\* returns True whatever the journal said; the source string of sal is the
\* comma-joined names of the confirming services in query order, and that of
\* core is the same list after the prefix "external:".
C22_AnyProviderConfirms ==
    \A i \in Misses :
        lookups[i].found # <<>>
        => /\ lookups[i].found = Confirming(lookups[i])
           /\ lookups[i].result.is_discovered
           /\ lookups[i].result.source_info =
                (IF package = "core" THEN "external:" ELSE "")
                \o Join(Confirming(lookups[i]))
C22_Witness ==
    \E i \in Misses :
        /\ lookups[i].original_was_discovered = {FALSE}
        /\ lookups[i].queried = Providers
        /\ lookups[i].found = <<"Spansh">>
        /\ lookups[i].result = [is_discovered |-> TRUE, source_info |-> "Spansh"]

\* Every source string a call can return for a non-empty list of confirming
\* services, in either copy.
ProviderListSources ==
    {prefix \o Join(SelectSeq(Providers, LAMBDA p : p \in S)) :
        prefix \in {"", "external:"},
        S \in (SUBSET {Providers[n] : n \in DOMAIN Providers}) \ {{}}}

\* C23 as stated: on a miss where no service confirms, the call returns the
\* journal's value with a tag that is neither "journal" nor a list of
\* services when the journal has a value, and (False, "none found") when it
\* has none.
C23_NoneFoundAsStated ==
    \A i \in Misses :
        lookups[i].found = <<>>
        => IF lookups[i].original_was_discovered # {}
           THEN /\ lookups[i].original_was_discovered = {lookups[i].result.is_discovered}
                /\ lookups[i].result.source_info \notin {"journal"} \cup ProviderListSources
           ELSE lookups[i].result = [is_discovered |-> FALSE, source_info |-> "none found"]

\* C23 amended: on a miss where no service confirms, the call returns the
\* journal's value with the tag "journal_fallback", which is neither "journal"
\* nor a list of services, when the journal has a value; when it has none the
\* call returns False with "Not found in any source" in sal and with
\* "external:none" in core.
C23_NoProviderConfirms ==
    \A i \in Misses :
        lookups[i].found = <<>>
        => IF lookups[i].original_was_discovered # {}
           THEN /\ lookups[i].original_was_discovered = {lookups[i].result.is_discovered}
                /\ lookups[i].result.source_info = "journal_fallback"
                /\ lookups[i].result.source_info \notin {"journal"} \cup ProviderListSources
           ELSE lookups[i].result =
                    [is_discovered |-> FALSE,
                     source_info |-> IF package = "sal" THEN "Not found in any source"
                                     ELSE "external:none"]
C23_Witness ==
    /\ Len(lookups) = 2
    /\ Misses = {1, 2}
    /\ lookups[1].queried = Providers /\ lookups[1].found = <<>>
    /\ lookups[1].original_was_discovered = {TRUE}
    /\ lookups[1].result = [is_discovered |-> TRUE, source_info |-> "journal_fallback"]
    /\ lookups[2].queried = <<"Spansh", "Edastro">> /\ lookups[2].found = <<>>
    /\ lookups[2].original_was_discovered = {}
    /\ lookups[2].result = [is_discovered |-> FALSE, source_info |-> "external:none"]

\* The elements of a sequence.
Range(seq) == {seq[n] : n \in DOMAIN seq}

\* C24, for the query a call is about to make: send_get_request_sync raises
\* for no outcome of the GET, and a GET that does not come back as a response
\* with status 200 makes the query return False.
C24_QueryState ==
    /\ lookup.pc = "edsm"
       => \A outcome \in ProviderOutcomes :
            /\ ~ProviderGet[EDSM_API_SYSTEM_URL][outcome].raised
            /\ ~Answered200(outcome) => ~query_edsm(lookup.system_name, outcome).found
    /\ lookup.pc = "spansh"
       => \A outcome \in ProviderOutcomes :
            /\ ~ProviderGet[SpanshUrl(lookup.system_address)][outcome].raised
            /\ ~Answered200(outcome)
               => ~query_spansh(lookup.system_address, outcome).found
    /\ lookup.pc = "edastro"
       => \A outcome \in ProviderOutcomes :
            /\ ~ProviderGet[EDASTRO_API_SYSTEM_URL][outcome].raised
            /\ ~Answered200(outcome)
               => ~query_edastro(lookup.system_address, outcome).found
\* C24, for each step of a call: whatever the GET did, the query of EDSM is
\* followed by that of Spansh and that by the query of Edastro, after which
\* the call returns a tuple; a service whose GET failed is not among the
\* confirming ones, and a call with a client, a name and an address has sent
\* a GET to all three.
C24_Step ==
    /\ lookup.pc = "edsm" /\ lookup' # lookup
       => /\ lookup'.pc = "spansh"
          /\ Range(lookup'.failed) \cap Range(lookup'.discovery_sources) = {}
    /\ lookup.pc = "spansh" /\ lookup' # lookup
       => /\ lookup'.pc = "edastro"
          /\ Range(lookup'.failed) \cap Range(lookup'.discovery_sources) = {}
    /\ lookup.pc = "edastro" /\ lookup' # lookup
       => /\ lookup' = NoLookup
          /\ Len(lookups') = Len(lookups) + 1
          /\ LET call == lookups'[Len(lookups')]
             IN  /\ call.result.is_discovered \in BOOLEAN
                 /\ Range(lookup.failed) \cap Range(call.found) = {}
                 /\ Range(lookup.failed) \subseteq Range(call.queried)
                 /\ http_client /\ call.system_name # "" /\ call.system_address # 0
                    => call.queried = Providers
\* C24: a lookup service whose GET fails or answers with a status other than
\* 200 counts as not confirming; the failure does not end the call, the
\* services after it are still queried, and the call returns a tuple.
C24_ProvidersDegrade == [][C24_Step]_vars /\ []C24_QueryState
C24_Witness ==
    /\ lookup.pc = "edastro"
    /\ lookup.queried = <<"EDSM", "Spansh">>
    /\ lookup.failed = <<"EDSM">>
    /\ lookup.discovery_sources = <<"Spansh">>

\* C25: a call that returns while the lookup is enabled and the SystemLookup
\* has no HttpClient returns False, the first component of the stated
\* (False, "no lookup available"), whatever the journal said.
C25_NoClientStep ==
    Len(lookups') = Len(lookups) + 1 /\ LookupEnabled /\ ~http_client
    => ~lookups'[Len(lookups')].result.is_discovered
C25_NoClientHardFalse == [][C25_NoClientStep]_vars

\* C26: of two calls that missed the cache for one key, which happens only
\* when both were in progress at once, and to which the services answered
\* alike, both returned the same tuple, and the cache holds it.
C26_ConcurrentSameTuple ==
    \A i, j \in Misses :
        /\ i < j
        /\ KeyOf(lookups[i]) = KeyOf(lookups[j])
        /\ lookups[i].found = lookups[j].found
        => /\ lookups[i].result = lookups[j].result
           /\ KeyOf(lookups[j]) \in DOMAIN discovery_cache
              => /\ discovery_cache[KeyOf(lookups[j])] = lookups[i].result
                 /\ discovery_cache[KeyOf(lookups[j])] = lookups[j].result

\* The last label of a hostname of labels and dots.
RECURSIVE LastLabel(_)
LastLabel(host) ==
    IF \A n \in DOMAIN host : host[n] # "." THEN host
    ELSE LastLabel(Tail(host))
\* The URLs of HttpUrls whose host is localhost, a dotted quad, or a hostname
\* whose last label has two characters or more.
HttpUrlsWithTld ==
    {UrlOf(scheme, host, port, path) :
        scheme \in HttpSchemes,
        host \in {h \in DottedHostnames : Len(LastLabel(h)) >= 2}
                 \cup {Localhost} \cup IPv4Hosts,
        port \in UrlPorts, path \in UrlPaths}
\* The values C27 says are rejected.
RejectedInputs == OtherSchemeUrls \cup NoSchemeUrls \cup {StrUrl(<<>>), NoneUrl}

\* C27 as stated: _is_url_valid returns True for every http:// or https://
\* URL of a host (dotted hostname, localhost or dotted quad), an optional
\* port and an optional path, and False for the empty string, a value that
\* is no str, a string without a scheme and one with another scheme.
C27_IsValidAsStated ==
    validation.called
    => /\ validation.url \in HttpUrls => validation.result
       /\ validation.url \in RejectedInputs => ~validation.result

\* C27 amended: the same, for the dotted hostnames whose last label has two
\* characters or more; a hostname whose last label is one character is
\* rejected.
C27_IsValid ==
    validation.called
    => /\ validation.url \in HttpUrlsWithTld => validation.result
       /\ validation.url \in HttpUrls \ HttpUrlsWithTld => ~validation.result
       /\ validation.url \in RejectedInputs => ~validation.result
C27_Witness ==
    /\ validation.called
    /\ validation.url =
         UrlOf(<<"h","t","t","p","s">>, <<"x","-","1",".","c","o","m">>,
               <<":","8","0">>, <<"/","v","1","/","x">>)
    /\ validation.result

\* C28: once stop() has returned and every worker has exited, no None that
\* stop() put is left in the queue.
C28_NoStaleSentinel ==
    /\ stop_calls > 0 /\ stop_pc = "idle" /\ worker_thread = 0
    /\ \A t \in DOMAIN threads : ~is_alive(t)
    => \A n \in DOMAIN request_queue : request_queue[n] # NoneItem

\* C29, in the form a finite run refutes: a request with a valid URL that is
\* enqueued after a stop() and a later start(), with no stop() since, finds
\* a worker alive to take it; with every worker exited and neither start()
\* nor stop() called again, nothing invokes its callback.
C29_EnqueueStep ==
    /\ Len(calls') = Len(calls) + 1
    /\ calls'[Len(calls')].url \in ValidPostUrls /\ calls'[Len(calls')].callback
    /\ stop_calls > 0 /\ stop_pc = "idle" /\ worker_thread # 0 /\ ~shutdown_event
    => \E t \in DOMAIN threads : is_alive(t)
C29_RestartedWorkerServes == [][C29_EnqueueStep]_vars

\* The requests in the queue, by id, and the requests with a valid URL that
\* left the queue without a POST.
QueuedIds == {request_queue[n].id : n \in DOMAIN request_queue} \ {0}
Discarded == {id \in ValidIds : id \notin QueuedIds /\ id \notin PostedIds}

\* C30, for the step that takes a request off the queue while the shutdown
\* event is set: no POST is issued, no callback invoked, and the worker that
\* took it exits; and a request that left the queue without a POST is never
\* sent later.
C30_DiscardStep ==
    /\ /\ request_queue # <<>> /\ request_queue' = Tail(request_queue)
       /\ Head(request_queue) # NoneItem /\ shutdown_event
       => /\ posts' = posts /\ callbacks' = callbacks
          /\ Head(request_queue).id \in Discarded'
          /\ \E t \in DOMAIN threads :
                threads[t].pc = "get" /\ threads'[t].pc = "exited"
    /\ Discarded \subseteq Discarded'
\* C30, for every state: the callback of a request that left the queue
\* without a POST has not been invoked.
C30_DiscardState == \A id \in Discarded : Invocations(id) = {}
\* C30: a request the worker takes off the queue after the shutdown event was
\* set is dropped: it is not sent, its callback is never invoked, and the
\* worker exits.
C30_DequeuedAfterShutdownDiscarded == [][C30_DiscardStep]_vars /\ []C30_DiscardState
C30_Witness ==
    /\ \E id \in Discarded : calls[id].callback /\ Invocations(id) = {}
    /\ shutdown_event
    /\ \A t \in DOMAIN threads : ~is_alive(t)
    /\ posts = <<>>

\* The requests in the queue, oldest first, without the None items.
RealRequests(queue) == SelectSeq(queue, LAMBDA item : item # NoneItem)

\* C31: no step of stop() takes a request out of the queue or reorders the
\* requests in it; and when a later start() spawns a worker, with every
\* earlier worker exited, the requests left in the queue are what that
\* worker takes first: the head of the queue is one of them, not a None.
C31_StopStep ==
    /\ stop_pc' # stop_pc
       => RealRequests(request_queue') = RealRequests(request_queue)
    /\ /\ start_calls' = start_calls + 1 /\ stop_calls > 0
       /\ Len(threads') = Len(threads) + 1
       /\ \A t \in DOMAIN threads : ~is_alive(t)
       /\ RealRequests(request_queue) # <<>>
       => Head(request_queue) # NoneItem
C31_StopKeepsPending == [][C31_StopStep]_vars

\* The dispatcher is stopped: start() has not been called, or stop() has
\* returned and start() was not called since, and no worker is left.
Stopped ==
    /\ worker_thread = 0 /\ stop_pc = "idle"
    /\ \A t \in DOMAIN threads : ~is_alive(t)

\* C32: a request with a valid URL handed in while the dispatcher is stopped
\* is put at the end of the queue and no callback is invoked for it; while
\* the dispatcher is stopped nothing is sent; and the request is delivered
\* in its turn once a worker runs, so no None that would end that worker
\* stands before it in the queue.
C32_EnqueueStep ==
    /\ Stopped => posts' = posts
    /\ /\ Stopped /\ Len(calls') = Len(calls) + 1
       /\ calls'[Len(calls')].url \in ValidPostUrls
       => /\ Len(request_queue') = Len(request_queue) + 1
          /\ request_queue'[Len(request_queue')].id = Len(calls')
          /\ callbacks' = callbacks
          /\ \A n \in DOMAIN request_queue : request_queue[n] # NoneItem
C32_EnqueueWhileStopped == [][C32_EnqueueStep]_vars

\* C33, for every state: the callback of a request whose callback raised
\* while the worker invoked it was invoked once.
C33_InvokedOnce ==
    \A i \in DOMAIN posts :
        posts[i].outcome = "callback_raised"
        => Cardinality(Invocations(posts[i].id)) = 1
\* C33, for the step in which the callback raises: the worker goes on with
\* its loop, at once or after the pause of line 244.
C33_RaiseStep ==
    \A i \in DOMAIN posts :
        posts[i].outcome = "pending" /\ posts'[i].outcome = "callback_raised"
        => threads'[posts[i].thread].pc \in {"while", "sleep"}
\* C33: when the callback of a request raises while the worker invokes it,
\* whatever the class of the exception, the callback is not invoked a second
\* time for that request and the worker continues with the next request.
C33_RaisingCallback == [][C33_RaiseStep]_vars /\ []C33_InvokedOnce

\* The services a call with these arguments sends a GET to, in order: EDSM
\* when there is a name, Spansh and Edastro when there is an address.
ExpectedQueries(system_name, system_address) ==
    SelectSeq(Providers,
              LAMBDA provider : IF provider = "EDSM" THEN system_name # ""
                                ELSE system_address # 0)

\* The first n elements of a sequence.
Prefix(sequence, n) == SubSeq(sequence, 1, n)

\* How many of the three queries the call in progress has made.
QueriesMade ==
    IF lookup.pc = "spansh" THEN 1 ELSE IF lookup.pc = "edastro" THEN 2 ELSE 0

\* C34, for a resolver with its HTTP client attached: every call that missed
\* the cache with the lookup enabled sent one GET to EDSM if and only if the
\* name is not empty, then one to Spansh and one to Edastro if and only if
\* the address is not zero, in that order and each service at most once,
\* whatever the earlier services answered; the call in progress has sent the
\* GETs of the queries it has made so far, in the same order.
C34_FixedProviderOrder ==
    http_client
    => /\ \A i \in Misses :
              lookups[i].queried
                  = ExpectedQueries(lookups[i].system_name, lookups[i].system_address)
       /\ lookup.pc # "idle"
          => lookup.queried
                 = SelectSeq(Prefix(Providers, QueriesMade),
                             LAMBDA provider :
                                 provider \in Range(ExpectedQueries(lookup.system_name,
                                                                   lookup.system_address)))
\* A miss in which EDSM confirmed and Spansh and Edastro were queried all
\* the same, and a call in progress with an address and no name that sent no
\* GET to EDSM and goes on to Edastro after Spansh confirmed.
C34_Witness ==
    /\ http_client
    /\ \E i \in Misses :
          /\ lookups[i].found # <<>> /\ lookups[i].found[1] = "EDSM"
          /\ lookups[i].queried = Providers
    /\ lookup.pc = "edastro" /\ lookup.system_name = ""
    /\ lookup.queried = <<"Spansh">> /\ lookup.discovery_sources = <<"Spansh">>

\* The settings are detached: cleanup() has been called.
CleanedUp == settings = {}

\* C35, for one step: the step that detaches the settings empties the cache
\* and detaches the client; once the settings are detached they stay so, no
\* query is begun, the cache is not written, and a call that returns hands
\* back (journal hint or False, "journal") and has sent no GET.
C35_CleanupStep ==
    /\ ~CleanedUp /\ CleanedUp' => discovery_cache' = <<>> /\ ~http_client'
    /\ CleanedUp
       => /\ CleanedUp' /\ ~http_client'
          /\ discovery_cache' = <<>>
          /\ lookup' = NoLookup
          /\ Len(lookups') > Len(lookups)
             => LET call == lookups'[Len(lookups')]
                IN  /\ Len(lookups') = Len(lookups) + 1
                    /\ call.result
                           = [is_discovered |-> call.original_was_discovered = {TRUE},
                              source_info |-> "journal"]
                    /\ call.queried = <<>>
                    /\ ~call.enabled /\ ~call.hit
\* C35, for every state: after cleanup() the cache is empty, the client is
\* detached and no call is in progress.
C35_CleanedUpState ==
    CleanedUp => discovery_cache = <<>> /\ ~http_client /\ lookup = NoLookup
\* C35: cleanup() empties the discovery cache and detaches the HTTP client
\* and the settings, and every check_system_discovery_status call made after
\* it returns (journal hint or False, "journal"), sends no GET and writes no
\* cache entry.
C35_AfterCleanup == [][C35_CleanupStep]_vars /\ []C35_CleanedUpState
\* A system that was resolved through the services and cached, then
\* cleanup(), then a call for the same system with a journal hint of True
\* that returned (True, "journal").
C35_Witness ==
    /\ CleanedUp
    /\ Len(lookups) = 2
    /\ lookups[1].enabled /\ ~lookups[1].hit /\ lookups[1].queried = Providers
    /\ ~lookups[1].result.is_discovered
    /\ KeyOf(lookups[2]) = KeyOf(lookups[1])
    /\ ~lookups[2].enabled /\ lookups[2].original_was_discovered = {TRUE}
    /\ lookups[2].result = [is_discovered |-> TRUE, source_info |-> "journal"]

\* C36, for the step that processes one journal entry: at most one
\* send_json_post_request call and at most one request enqueued, the request
\* only by that call; no call, no request and no lookup when the handler is
\* cleaned up, the plugin is disabled or the event is not a relevant one;
\* no call and no request when api_url is empty or no payload was built.
C36_EntryStep ==
    Len(entries') = Len(entries) + 1
    => LET processed == entries'[Len(entries')]
           handled == /\ data_handler.settings /\ data_handler.http_client
                      /\ preferences.plugin_enabled
                      /\ processed.event \in JournalEvents
       IN  /\ Len(calls') - Len(calls) \in {0, 1}
           /\ Len(request_queue') - Len(request_queue) \in {0, 1}
           /\ Len(request_queue') - Len(request_queue) <= Len(calls') - Len(calls)
           /\ processed.sent <=> Len(calls') = Len(calls) + 1
           /\ posts' = posts
           /\ ~handled
              => /\ calls' = calls /\ request_queue' = request_queue
                 /\ callbacks' = callbacks
                 /\ lookups' = lookups /\ discovery_cache' = discovery_cache
                 /\ processed.returned = {}
           /\ preferences.api_url = NoApiUrl \/ processed.returned = {}
              => /\ calls' = calls /\ request_queue' = request_queue
                 /\ callbacks' = callbacks
\* C36: process_journal_entry enqueues at most one POST per journal entry;
\* it enqueues none and makes no lookup when the plugin is disabled, the
\* event is not relevant or the handler has been cleaned up, and enqueues
\* none when the API URL is empty or no payload was built.
C36_AtMostOnePost == [][C36_EntryStep]_vars
\* An FSDJump that was looked up and enqueued, followed by an FSDJump that a
\* handler not cleaned up dropped without a lookup: the plugin was disabled.
C36_Witness ==
    /\ Len(entries) = 2
    /\ entries[1].event = "FSDJump" /\ entries[1].returned # {} /\ entries[1].sent
    /\ entries[2].event = "FSDJump" /\ entries[2].returned = {} /\ ~entries[2].sent
    /\ data_handler.settings
    /\ Len(calls) = 1 /\ Len(request_queue) = 1 /\ Len(lookups) = 1

\* The last-value cache of the handler holds the address and the tuple of
\* this resolver call.
LastValueIs(handler, call) ==
    /\ handler.cached_system_address = {call.system_address}
    /\ handler.cached_was_discovered = {call.result.is_discovered}
    /\ handler.cached_discovery_source = {call.result.source_info}

\* C37, for the step that processes a journal entry whose payload builder
\* invokes _get_system_discovery_status with a resolver attached: the
\* resolver is called exactly once, whatever the last-value cache held, its
\* tuple is what the invocation returns, and the last-value cache holds that
\* tuple afterwards.
C37_ResolverStep ==
    /\ Len(entries') = Len(entries) + 1
    /\ entries'[Len(entries')].returned # {}
    /\ data_handler.system_lookup
    => /\ Len(lookups') = Len(lookups) + 1
       /\ SubSeq(lookups', 1, Len(lookups)) = lookups
       /\ entries'[Len(entries')].returned = {lookups'[Len(lookups')].result}
       /\ LastValueIs(data_handler', lookups'[Len(lookups')])
\* C37, for every state: a last-value cache that is not empty holds the
\* tuple of the latest resolver call.
C37_LastValueState ==
    data_handler.cached_was_discovered # {}
    => lookups # <<>> /\ LastValueIs(data_handler, lookups[Len(lookups)])
=============================================================================
